---- MODULE Spec2Model ----
(***************************************************************************)
(* Point-in-time formulas of the dao-proposal-single contract              *)
(* (src/src/data/formulas/contract/proposal/daoProposalSingle/formulas.ts) *)
(* evaluated against a log of Transformations and RawWrites.               *)
(***************************************************************************)
EXTENDS Integers, Sequences, FiniteSets, TLC

VARIABLES
  transformations,  \* the Transformation facts of the contract
  events,           \* the RawWrite facts of the contract
  block,            \* the block of the query environment: [height, time]
  result,           \* the outcome of the last formula evaluation
  pending,          \* the Promise.all of the evaluation in progress, if any
  database,         \* the WasmCodeKey and WasmCodeKeyId tables
  wasmCodes         \* the code keys the WasmCodeService holds in memory

vars == <<transformations, events, block, result, pending, database, wasmCodes>>

----------------------------------------------------------------------------
(* Bounds of the model.                                                    *)

MaxExpiration == 2   \* proposal expirations range over 1..MaxExpiration
MaxDuration == 1     \* veto timelock durations range over 1..MaxDuration
MaxTime == 4         \* the query clock ranges over 0..MaxTime
MaxHeight == 2       \* fact and query heights range over 1..MaxHeight
MaxId == 7           \* proposal ids of a listed log range over 1..MaxId
MaxTasks == 3        \* at most MaxTasks sub-evaluations are in flight at once
MaxVoters == 52      \* numbered voter addresses range over 1..MaxVoters
MaxCodeId == 2       \* wasm code ids range over 1..MaxCodeId
MaxReloads == 2      \* at most MaxReloads reloads in a row are followed

----------------------------------------------------------------------------
(* JavaScript values.                                                      *)

\* An optional value: absent (undefined) or present.
None == <<>>
Some(v) == <<v>>
Val(o) == o[1]

\* Number values that are not integers.
NaN == -2000000
Infinity == 1000000
NegInfinity == -Infinity

\* Number.prototype.toString on the non-negative integers the model uses.
toString(n) ==
  CASE n = 0 -> "0" [] n = 1 -> "1" [] n = 2 -> "2" [] n = 3 -> "3"
    [] n = 4 -> "4" [] n = 5 -> "5" [] n = 6 -> "6" [] n = 7 -> "7"
    [] n = 8 -> "8" [] n = 9 -> "9" [] n = 10 -> "10" [] n = 11 -> "11"
    [] OTHER -> "12"

Decimals == 0..12

\* Number(s) on the argument strings the model uses: a decimal parses to its
\* value, the empty string to 0, anything else to NaN.
Number(s) ==
  IF \E n \in Decimals : toString(n) = s
  THEN CHOOSE n \in Decimals : toString(n) = s
  ELSE CASE s = "" -> 0
         [] s = "01" -> 1
         [] s = "-1" -> -1
         [] OTHER -> NaN

isNaN(x) == x = NaN

\* Math.max(0, x): NaN if x is NaN.
MathMax0(x) == IF isNaN(x) THEN NaN ELSE IF x > 0 THEN x ELSE 0

\* a > b and a < b on numbers: false when either is NaN.
Gt(a, b) == ~isNaN(a) /\ ~isNaN(b) /\ a > b
Lt(a, b) == ~isNaN(a) /\ ~isNaN(b) /\ a < b

\* The arguments of an invocation: a mapping from names to strings.
Arg(args, k) == IF k \in DOMAIN args THEN Some(args[k]) ELSE None

\* !s for an optional string argument.
Falsy(o) == o = None \/ o = Some("")

----------------------------------------------------------------------------
(* Proposal records.                                                       *)

Open == [kind |-> "open"]
Rejected == [kind |-> "rejected"]
Passed == [kind |-> "passed"]
Executed == [kind |-> "executed"]
Closed == [kind |-> "closed"]
ExecutionFailed == [kind |-> "execution_failed"]
VetoTimelock(expiration) == [kind |-> "veto_timelock", expiration |-> expiration]

Expirations == 1..MaxExpiration
Durations == 1..MaxDuration

Statuses ==
  {Open, Rejected, Passed, Executed, Closed, ExecutionFailed}
    \cup {VetoTimelock(x) : x \in 1..(MaxExpiration + MaxDuration)}

\* A SingleChoiceProposal as far as the formulas read it.  passCondition and
\* rejectCondition stand for the votes, threshold and total power that the
\* tally rule reads.
Proposals ==
  [status : Statuses, expiration : Expirations,
   veto : {None} \cup {Some([timelock_duration |-> d]) : d \in Durations},
   passCondition : BOOLEAN, rejectCondition : BOOLEAN]

isPassed(proposal) == proposal.passCondition
isRejected(proposal) == proposal.rejectCondition

expirationPlusDuration(expiration, duration) == expiration + duration
isExpirationExpired(expiration) == block.time >= expiration

----------------------------------------------------------------------------
(* The query environment: point-in-time accessors.                         *)

\* Variant: a read sees every fact of the log, whatever its height.
AtOrBefore_anyHeight(facts) == facts

AtOrBefore(facts) == {f \in facts : f.blockHeight <= block.height}
LatestOf(facts) == CHOOSE f \in facts : \A g \in facts : g.blockHeight <= f.blockHeight
EarliestOf(facts) == CHOOSE f \in facts : \A g \in facts : f.blockHeight <= g.blockHeight
DateOf(facts) == IF facts = {} THEN None ELSE Some(EarliestOf(facts).blockHeight)

\* A value filter on the status field: the set of status strings it accepts.
AnyValue == {"open", "rejected", "passed", "executed", "closed",
             "execution_failed", "veto_timelock"}
Matches(value, where) == value.status.kind \in where

WritesTo(key) == {e \in AtOrBefore(events) : e.key = key}
Named(name) == {t \in AtOrBefore(transformations) : t.name = name}

get(key) ==
  IF WritesTo(key) = {} THEN None ELSE Some(LatestOf(WritesTo(key)).value)

getDateKeyModified(key) ==
  IF WritesTo(key) = {} THEN None ELSE Some(LatestOf(WritesTo(key)).blockHeight)

getDateKeyFirstSet(key) == DateOf(WritesTo(key))

getDateKeyFirstSetWithValueMatch(key, where) ==
  DateOf({e \in WritesTo(key) : Matches(e.value, where)})

getTransformationMatch(name) ==
  IF Named(name) = {} THEN None ELSE Some([value |-> LatestOf(Named(name)).value])

getDateFirstTransformed(name, where) ==
  DateOf({t \in Named(name) : Matches(t.value, where)})

\* The children of a raw map: key = prefix \o <<k>>.
ChildrenOf(prefix) ==
  {e \in AtOrBefore(events) :
     /\ Len(e.key) = Len(prefix) + 1
     /\ SubSeq(e.key, 1, Len(prefix)) = prefix}

getMap(prefix) ==
  LET S == ChildrenOf(prefix)
      K == {e.key[Len(prefix) + 1] : e \in S}
  IN IF S = {} THEN None
     ELSE Some([k \in K |-> LatestOf({e \in S : e.key[Len(prefix) + 1] = k}).value])

\* The names prefix:<key>, keyed by the number <key>.
getTransformationMap(prefix) ==
  LET S == {t \in AtOrBefore(transformations) : Len(t.name) = 2 /\ t.name[1] = prefix}
      K == {Number(t.name[2]) : t \in S}
  IN IF S = {} THEN None
     ELSE Some([k \in K |-> LatestOf({t \in S : Number(t.name[2]) = k}).value])

\* The voter addresses of the model: four short ones, one of which extends
\* another by a digit, and MaxVoters numbered ones of equal length.
Numbered(i) == "v" \o toString(i \div 10) \o toString(i % 10)
NumberedVoters == {Numbered(i) : i \in 1..MaxVoters}
Voters == {"a", "a1", "b", "c"} \cup NumberedVoters

\* The UTF-16 code units of the strings that occur in names and cursors.
CodeUnits ==
  [s \in {toString(n) : n \in Decimals} |->
     LET n == Number(s)
     IN IF n < 10 THEN <<48 + n>> ELSE <<48 + (n \div 10), 48 + (n % 10)>>]
    @@ [s \in NumberedVoters |->
          LET i == CHOOSE k \in 1..MaxVoters : Numbered(k) = s
          IN <<118, 48 + (i \div 10), 48 + (i % 10)>>]
    @@ ("" :> <<>>) @@ ("a" :> <<97>>) @@ ("a1" :> <<97, 49>>)
    @@ ("b" :> <<98>>) @@ ("c" :> <<99>>) @@ ("abc" :> <<97, 98, 99>>)
    @@ ("01" :> <<48, 49>>) @@ ("-1" :> <<45, 49>>)
    @@ ("voteCast" :> <<118, 111, 116, 101, 67, 97, 115, 116>>)

\* The order of two code-unit sequences: negative, zero or positive as the
\* first is before, equal to or after the second; a proper prefix is before
\* its extensions.
compareUnits(x, y) ==
  LET n == IF Len(x) < Len(y) THEN Len(x) ELSE Len(y)
      D == {i \in 1..n : x[i] # y[i]}
  IN IF D = {} THEN Len(x) - Len(y)
     ELSE LET i == CHOOSE i \in D : \A j \in D : i <= j IN x[i] - y[i]

\* a.localeCompare(b): on strings of digits and lower-case letters the
\* collation order is the code-unit order (digits before letters, a proper
\* prefix before its extensions).
localeCompare(a, b) == compareUnits(CodeUnits[a], CodeUnits[b])

\* The sequence of the elements of a set of strings, ascending.
RECURSIVE sortStrings(_)
sortStrings(S) ==
  IF S = {} THEN <<>>
  ELSE LET m == CHOOSE x \in S : \A y \in S : localeCompare(x, y) <= 0
       IN <<m>> \o sortStrings(S \ {m})

\* The full name string of a name: its segments joined by ":".
RECURSIVE nameUnits(_)
nameUnits(name) ==
  IF Len(name) = 0 THEN <<>>
  ELSE IF Len(name) = 1 THEN CodeUnits[name[1]]
  ELSE CodeUnits[name[1]] \o <<58>> \o nameUnits(Tail(name))

\* The order of two names: lexicographic on the full name string.
compareNames(a, b) == compareUnits(nameUnits(a), nameUnits(b))

\* The sequence of the elements of a set of names, ascending.
RECURSIVE sortNames(_)
sortNames(S) ==
  IF S = {} THEN <<>>
  ELSE LET m == CHOOSE x \in S : \A y \in S : compareNames(x, y) <= 0
       IN <<m>> \o sortNames(S \ {m})

\* The names voteCast:*:<proposalId> with their latest values, ascending by
\* name, after the name `after` if given, capped at `limit` if given; absent
\* if no such name exists at all.
getTransformationMatches(proposalId, after, limit) ==
  LET S == {t \in AtOrBefore(transformations) :
              Len(t.name) = 3 /\ t.name[1] = "voteCast" /\ t.name[3] = proposalId}
      inRange == {n \in {t.name : t \in S} :
                    after = None \/ compareNames(n, Val(after)) > 0}
      ordered == sortNames(inRange)
      capped == IF limit = None THEN ordered
                ELSE IF isNaN(Val(limit)) THEN <<>>
                ELSE SubSeq(ordered, 1, IF Val(limit) < Len(ordered)
                                        THEN Val(limit) ELSE Len(ordered))
  IN IF S = {} THEN None
     ELSE Some([i \in 1..Len(capped) |->
                 [value |-> LatestOf({t \in S : t.name = capped[i]}).value]])

----------------------------------------------------------------------------
(* Formula outcomes: a returned value or a thrown error, with the          *)
(* environment lookups issued on the way, in order.                        *)

Lookup(fn, key) == [fn |-> fn, key |-> key]
Return(value, lookups) == [ok |-> TRUE, value |-> value, lookups |-> lookups]
Throw(message) == [ok |-> FALSE, value |-> message, lookups |-> <<>>]

\* a ?? b, where b is only evaluated (and its lookups issued) if a is absent.
OrElse(a, b) ==
  IF a.value # None THEN a ELSE Return(b.value, a.lookups \o b.lookups)

----------------------------------------------------------------------------
(* proposalCreatedAt                                                       *)

proposalCreatedAt(args) ==
  LET id == Arg(args, "id") IN
  IF Falsy(id) \/ isNaN(Number(Val(id))) \/ Number(Val(id)) < 0
  THEN Throw("missing id")
  ELSE LET name == <<"proposal", Val(id)>>
           v2Key == <<"proposals_v2", Number(Val(id))>>
           v1Key == <<"proposals", Number(Val(id))>>
       IN OrElse(
            Return(getDateFirstTransformed(name, AnyValue),
                   <<Lookup("getDateFirstTransformed", name)>>),
            OrElse(
              Return(getDateKeyFirstSet(v2Key),
                     <<Lookup("getDateKeyFirstSet", v2Key)>>),
              Return(getDateKeyFirstSet(v1Key),
                     <<Lookup("getDateKeyFirstSet", v1Key)>>)))

----------------------------------------------------------------------------
(* intoResponse                                                            *)

\* Variants of the status update, each with one slip.
\* The veto timelock ends at the proposal's own expiration.
updateStatus_timelockWithoutDuration(proposal) ==
  IF proposal.status = Open
  THEN IF isPassed(proposal)
       THEN IF proposal.veto # None
            THEN IF isExpirationExpired(proposal.expiration)
                 THEN Passed
                 ELSE VetoTimelock(proposal.expiration)
            ELSE Passed
       ELSE IF isExpirationExpired(proposal.expiration) \/ isRejected(proposal)
            THEN Rejected
            ELSE proposal.status
  ELSE IF proposal.status.kind = "veto_timelock"
       THEN IF isExpirationExpired(proposal.status.expiration)
            THEN Passed
            ELSE proposal.status
       ELSE proposal.status

\* Expiry is checked before the pass condition.
updateStatus_expiryFirst(proposal) ==
  IF proposal.status = Open
  THEN IF isExpirationExpired(proposal.expiration) \/ isRejected(proposal)
       THEN Rejected
       ELSE IF isPassed(proposal)
            THEN IF proposal.veto # None
                 THEN VetoTimelock(
                        expirationPlusDuration(proposal.expiration,
                                               Val(proposal.veto).timelock_duration))
                 ELSE Passed
            ELSE proposal.status
  ELSE IF proposal.status.kind = "veto_timelock"
       THEN IF isExpirationExpired(proposal.status.expiration)
            THEN Passed
            ELSE proposal.status
       ELSE proposal.status

\* A recorded veto timelock is never resolved.
updateStatus_timelockKept(proposal) ==
  IF proposal.status = Open
  THEN IF isPassed(proposal)
       THEN IF proposal.veto # None
            THEN LET expiration ==
                       expirationPlusDuration(proposal.expiration,
                                              Val(proposal.veto).timelock_duration)
                 IN IF isExpirationExpired(expiration)
                    THEN Passed
                    ELSE VetoTimelock(expiration)
            ELSE Passed
       ELSE IF isExpirationExpired(proposal.expiration) \/ isRejected(proposal)
            THEN Rejected
            ELSE proposal.status
  ELSE proposal.status

\* The tally is applied whatever the recorded status.
updateStatus_anyStatus(proposal) ==
  IF proposal.status.kind # "veto_timelock"
  THEN IF isPassed(proposal)
       THEN Passed
       ELSE IF isExpirationExpired(proposal.expiration) \/ isRejected(proposal)
            THEN Rejected
            ELSE proposal.status
  ELSE IF isExpirationExpired(proposal.status.expiration)
       THEN Passed
       ELSE proposal.status

\* The veto timelock is measured from the query time.
updateStatus_timelockFromNow(proposal) ==
  IF proposal.status = Open
  THEN IF isPassed(proposal)
       THEN IF proposal.veto # None
            THEN VetoTimelock(
                   expirationPlusDuration(block.time,
                                          Val(proposal.veto).timelock_duration))
            ELSE Passed
       ELSE IF isExpirationExpired(proposal.expiration) \/ isRejected(proposal)
            THEN Rejected
            ELSE proposal.status
  ELSE IF proposal.status.kind = "veto_timelock"
       THEN IF isExpirationExpired(proposal.status.expiration)
            THEN Passed
            ELSE proposal.status
       ELSE proposal.status

\* The status update at the head of intoResponse.
updateStatus(proposal) ==
  IF proposal.status = Open
  THEN IF isPassed(proposal)
       THEN IF proposal.veto # None
            THEN LET expiration ==
                       expirationPlusDuration(proposal.expiration,
                                              Val(proposal.veto).timelock_duration)
                 IN IF isExpirationExpired(expiration)
                    THEN Passed
                    ELSE VetoTimelock(expiration)
            ELSE Passed
       ELSE IF isExpirationExpired(proposal.expiration) \/ isRejected(proposal)
            THEN Rejected
            ELSE proposal.status
  ELSE IF proposal.status.kind = "veto_timelock"
       THEN IF isExpirationExpired(proposal.status.expiration)
            THEN Passed
            ELSE proposal.status
       ELSE proposal.status

\* Variant: the schema flag is ignored.
rawSchema_alwaysV1(v2) == "proposals"

\* The raw schema the fallback lookups of intoResponse read.
rawSchema(v2) == IF v2 THEN "proposals_v2" ELSE "proposals"

\* The earliest fact of proposal `id` whose status is in `where`:
\* Transformation first, the raw schema otherwise.
dateOfStatus(id, v2, where) ==
  LET name == <<"proposal", toString(id)>>
      key == <<rawSchema(v2), id>>
  IN OrElse(
       Return(getDateFirstTransformed(name, where),
              <<Lookup("getDateFirstTransformed", name)>>),
       Return(getDateKeyFirstSetWithValueMatch(key, where),
              <<Lookup("getDateKeyFirstSetWithValueMatch", key)>>))

Skipped == Return(None, <<>>)

\* Variant: the dates are looked up whatever the derived status.
intoResponse_unguardedDates(proposal, id, v2) ==
  LET status == updateStatus(proposal)
      createdAt == proposalCreatedAt([id |-> toString(id)])
      executedAt == dateOfStatus(id, v2, {"executed", "execution_failed"})
      closedAt == dateOfStatus(id, v2, {"closed"})
      completedAt ==
        OrElse(Return(executedAt.value, <<>>),
          OrElse(Return(closedAt.value, <<>>),
                 dateOfStatus(id, v2, {"passed", "rejected"})))
  IN Return(
       [id |-> id,
        proposal |-> [proposal EXCEPT !.status = status],
        createdAt |-> createdAt.value,
        completedAt |-> completedAt.value,
        executedAt |-> executedAt.value,
        closedAt |-> closedAt.value],
       createdAt.lookups \o executedAt.lookups \o closedAt.lookups
         \o completedAt.lookups)

\* Variant: completedAt does not take executedAt into account.
intoResponse_withoutExecutedAt(proposal, id, v2) ==
  LET status == updateStatus(proposal)
      createdAt == proposalCreatedAt([id |-> toString(id)])
      executedAt ==
        IF status = Executed \/ status = ExecutionFailed
        THEN dateOfStatus(id, v2, {"executed", "execution_failed"})
        ELSE Skipped
      closedAt ==
        IF status = Closed
        THEN dateOfStatus(id, v2, {"closed"})
        ELSE Skipped
      completedAt ==
        IF status # Open
        THEN OrElse(Return(closedAt.value, <<>>),
                    dateOfStatus(id, v2, {"passed", "rejected"}))
        ELSE Skipped
  IN Return(
       [id |-> id,
        proposal |-> [proposal EXCEPT !.status = status],
        createdAt |-> createdAt.value,
        completedAt |-> completedAt.value,
        executedAt |-> executedAt.value,
        closedAt |-> closedAt.value],
       createdAt.lookups \o executedAt.lookups \o closedAt.lookups
         \o completedAt.lookups)

intoResponse(proposal, id, v2) ==
  LET status == updateStatus(proposal)
      createdAt == proposalCreatedAt([id |-> toString(id)])
      executedAt ==
        IF status = Executed \/ status = ExecutionFailed
        THEN dateOfStatus(id, v2, {"executed", "execution_failed"})
        ELSE Skipped
      closedAt ==
        IF status = Closed
        THEN dateOfStatus(id, v2, {"closed"})
        ELSE Skipped
      completedAt ==
        IF status # Open
        THEN OrElse(Return(executedAt.value, <<>>),
               OrElse(Return(closedAt.value, <<>>),
                      dateOfStatus(id, v2, {"passed", "rejected"})))
        ELSE Skipped
  IN Return(
       [id |-> id,
        proposal |-> [proposal EXCEPT !.status = status],
        createdAt |-> createdAt.value,
        completedAt |-> completedAt.value,
        executedAt |-> executedAt.value,
        closedAt |-> closedAt.value],
       createdAt.lookups \o executedAt.lookups \o closedAt.lookups
         \o completedAt.lookups)

----------------------------------------------------------------------------
(* proposal                                                                *)

\* Variant: the raw schemas are consulted before the Transformation.
proposal_rawFirst(args) ==
  LET id == Arg(args, "id") IN
  IF Falsy(id) \/ isNaN(Number(Val(id))) \/ Number(Val(id)) < 0
  THEN Throw("missing id")
  ELSE LET idNum == Number(Val(id))
           name == <<"proposal", Val(id)>>
           v2Key == <<"proposals_v2", idNum>>
           v1Key == <<"proposals", idNum>>
           match == getTransformationMatch(name)
           proposalV2 == get(v2Key)
           proposalV1 == get(v1Key)
           l1 == <<Lookup("get", v2Key)>>
           l2 == l1 \o <<Lookup("get", v1Key)>>
           l3 == l2 \o <<Lookup("getTransformationMatch", name)>>
           respond(p, v2, lookups) ==
             LET r == intoResponse(p, idNum, v2)
             IN Return(Some(r.value), lookups \o r.lookups)
       IN IF proposalV2 # None THEN respond(Val(proposalV2), TRUE, l1)
          ELSE IF proposalV1 # None THEN respond(Val(proposalV1), FALSE, l2)
          ELSE IF match # None THEN respond(Val(match).value, FALSE, l3)
          ELSE Return(None, l3)

proposal(args) ==
  LET id == Arg(args, "id") IN
  IF Falsy(id) \/ isNaN(Number(Val(id))) \/ Number(Val(id)) < 0
  THEN Throw("missing id")
  ELSE LET idNum == Number(Val(id))
           name == <<"proposal", Val(id)>>
           v2Key == <<"proposals_v2", idNum>>
           v1Key == <<"proposals", idNum>>
           match == getTransformationMatch(name)
           proposalV2 == get(v2Key)
           proposalV1 == get(v1Key)
           l1 == <<Lookup("getTransformationMatch", name)>>
           l2 == l1 \o <<Lookup("get", v2Key)>>
           l3 == l2 \o <<Lookup("get", v1Key)>>
           respond(p, v2, lookups) ==
             LET r == intoResponse(p, idNum, v2)
             IN Return(Some(r.value), lookups \o r.lookups)
       IN IF match # None THEN respond(Val(match).value, FALSE, l1)
          ELSE IF proposalV2 # None THEN respond(Val(proposalV2), TRUE, l2)
          ELSE IF proposalV1 # None THEN respond(Val(proposalV1), FALSE, l3)
          ELSE Return(None, l3)

----------------------------------------------------------------------------
(* listProposals and reverseProposals                                      *)

Min(a, b) == IF a < b THEN a ELSE b

\* Array.prototype.sort with (a, b) => a - b and with (a, b) => b - a.
RECURSIVE sortAscending(_)
sortAscending(S) ==
  IF S = {} THEN <<>>
  ELSE LET m == CHOOSE x \in S : \A y \in S : x - y <= 0
       IN <<m>> \o sortAscending(S \ {m})

RECURSIVE sortDescending(_)
sortDescending(S) ==
  IF S = {} THEN <<>>
  ELSE LET m == CHOOSE x \in S : \A y \in S : y - x <= 0
       IN <<m>> \o sortDescending(S \ {m})

\* Array.prototype.slice(0, n): n = NaN counts as 0.
slice(seq, n) ==
  IF isNaN(n) THEN <<>> ELSE SubSeq(seq, 1, Min(n, Len(seq)))

\* limit ? Math.max(0, Number(limit)) : Infinity
limitNumOf(limit) ==
  IF Falsy(limit) THEN Infinity ELSE MathMax0(Number(Val(limit)))

\* Variant: the v1 schema is consulted before the v2 schema.
resolveProposals_v1First ==
  LET tMap == getTransformationMap("proposal")
      v2Map == getMap(<<"proposals_v2">>)
      v1Map == getMap(<<"proposals">>)
      l1 == <<Lookup("getTransformationMap", <<"proposal">>)>>
      l2 == l1 \o <<Lookup("getMap", <<"proposals">>)>>
      l3 == l2 \o <<Lookup("getMap", <<"proposals_v2">>)>>
  IN IF tMap # None THEN [proposals |-> tMap, v2 |-> FALSE, lookups |-> l1]
     ELSE IF v1Map # None THEN [proposals |-> v1Map, v2 |-> FALSE, lookups |-> l2]
     ELSE [proposals |-> v2Map, v2 |-> TRUE, lookups |-> l3]

\* The resolved map of proposals with the schema flag and the lookups issued.
resolveProposals ==
  LET tMap == getTransformationMap("proposal")
      v2Map == getMap(<<"proposals_v2">>)
      v1Map == getMap(<<"proposals">>)
      l1 == <<Lookup("getTransformationMap", <<"proposal">>)>>
      l2 == l1 \o <<Lookup("getMap", <<"proposals_v2">>)>>
      l3 == l2 \o <<Lookup("getMap", <<"proposals">>)>>
  IN IF tMap # None THEN [proposals |-> tMap, v2 |-> FALSE, lookups |-> l1]
     ELSE IF v2Map # None THEN [proposals |-> v2Map, v2 |-> TRUE, lookups |-> l2]
     ELSE [proposals |-> v1Map, v2 |-> FALSE, lookups |-> l3]

\* The responses to the proposals `ids` of the map, in the order of `ids`.
RECURSIVE lookupsOf(_)
lookupsOf(outs) ==
  IF outs = <<>> THEN <<>> ELSE Head(outs).lookups \o lookupsOf(Tail(outs))

respondAll(proposals, ids, v2) ==
  [i \in 1..Len(ids) |-> intoResponse(proposals[ids[i]], ids[i], v2)]

valuesOf(outs) == [i \in 1..Len(outs) |-> outs[i].value]

\* Variant: the cursor itself is kept on the page.
pageAscending_inclusive(keys, startAfterNum, limitNum) ==
  LET After(id) == ~Lt(id, startAfterNum)
  IN slice(SelectSeq(sortAscending(keys), After), limitNum)

\* The ids of a page of listProposals.
pageAscending(keys, startAfterNum, limitNum) ==
  LET After(id) == Gt(id, startAfterNum)
  IN slice(SelectSeq(sortAscending(keys), After), limitNum)

\* The status filter of listProposals.
keptBy(filterArg, response) ==
  IF filterArg = Some("passed")
  THEN \/ response.proposal.status = Passed
       \/ response.proposal.status = Executed
       \/ response.proposal.status = ExecutionFailed
  ELSE TRUE

listProposals(args) ==
  LET limitNum == limitNumOf(Arg(args, "limit"))
      startAfter == Arg(args, "startAfter")
      startAfterNum ==
        IF Falsy(startAfter) THEN NegInfinity ELSE MathMax0(Number(Val(startAfter)))
      r == resolveProposals
  IN IF r.proposals = None THEN Return(<<>>, r.lookups)
     ELSE LET proposals == Val(r.proposals)
              proposalIds == pageAscending(DOMAIN proposals, startAfterNum, limitNum)
              outs == respondAll(proposals, proposalIds, r.v2)
              Kept(response) == keptBy(Arg(args, "filter"), response)
          IN Return(SelectSeq(valuesOf(outs), Kept), r.lookups \o lookupsOf(outs))

\* Variant: the page is cut before the cursor is applied.
pageDescending_sliceFirst(keys, startBeforeNum, limitNum) ==
  LET Before(id) == Lt(id, startBeforeNum)
  IN SelectSeq(slice(sortDescending(keys), limitNum), Before)

\* The ids of a page of reverseProposals.
pageDescending(keys, startBeforeNum, limitNum) ==
  LET Before(id) == Lt(id, startBeforeNum)
  IN slice(SelectSeq(sortDescending(keys), Before), limitNum)

reverseProposals(args) ==
  LET limitNum == limitNumOf(Arg(args, "limit"))
      startBefore == Arg(args, "startBefore")
      startBeforeNum ==
        IF Falsy(startBefore) THEN Infinity ELSE MathMax0(Number(Val(startBefore)))
      r == resolveProposals
  IN IF r.proposals = None THEN Return(<<>>, r.lookups)
     ELSE LET proposals == Val(r.proposals)
              proposalIds == pageDescending(DOMAIN proposals, startBeforeNum, limitNum)
              outs == respondAll(proposals, proposalIds, r.v2)
          IN Return(valuesOf(outs), r.lookups \o lookupsOf(outs))

----------------------------------------------------------------------------
(* vote                                                                    *)

vote(args) ==
  LET proposalId == Arg(args, "proposalId")
      voter == Arg(args, "voter")
  IN IF Falsy(proposalId) THEN Throw("missing proposalId")
     ELSE IF Falsy(voter) THEN Throw("missing voter")
     ELSE LET name == <<"voteCast", Val(voter), Val(proposalId)>>
              key == <<"ballots", Number(Val(proposalId)), Val(voter)>>
              match == getTransformationMatch(name)
              ballot == get(key)
              l1 == <<Lookup("getTransformationMatch", name)>>
              l2 == l1 \o <<Lookup("get", key)>>
              l3 == l2 \o <<Lookup("getDateKeyModified", key)>>
              info(voteCast) ==
                Some([voter |-> Val(voter), vote |-> voteCast.vote,
                      votedAt |-> voteCast.votedAt])
          IN IF match # None THEN Return(info(Val(match).value), l1)
             ELSE IF ballot # None
                  THEN Return(info([voter |-> Val(voter), vote |-> Val(ballot),
                                    votedAt |-> getDateKeyModified(key)]), l3)
                  ELSE Return(None, l2)

----------------------------------------------------------------------------
(* listVotes and voteCount                                                 *)

\* The largest page of raw ballots whose votedAt dates are looked up.
MaxDatedVotes == 50

\* Variant: the dates are looked up whatever the size of the page.
dated_always(voters) == TRUE

\* voters.length <= 50
dated(voters) == Len(voters) <= MaxDatedVotes

listVotes(args) ==
  LET proposalId == Arg(args, "proposalId")
      limit == Arg(args, "limit")
      startAfter == Arg(args, "startAfter")
  IN IF Falsy(proposalId) \/ isNaN(Number(Val(proposalId)))
          \/ Number(Val(proposalId)) < 0
     THEN Throw("missing proposalId")
     ELSE LET limitNum == limitNumOf(limit)
              pattern == <<"voteCast", "*", Val(proposalId)>>
              prefix == <<"ballots", Number(Val(proposalId))>>
              matches ==
                getTransformationMatches(
                  Val(proposalId),
                  IF Falsy(startAfter) THEN None
                  ELSE Some(<<"voteCast", Val(startAfter), Val(proposalId)>>),
                  IF Falsy(limit) THEN None ELSE Some(limitNum))
              l1 == <<Lookup("getTransformationMatches", pattern)>>
              l2 == l1 \o <<Lookup("getMap", prefix)>>
              info(voteCast) ==
                [voter |-> voteCast.voter, vote |-> voteCast.vote,
                 votedAt |-> voteCast.votedAt]
          IN IF matches # None
             THEN Return([i \in 1..Len(Val(matches)) |-> info(Val(matches)[i].value)], l1)
             ELSE LET map == getMap(prefix)
                      keys == IF map = None THEN {} ELSE DOMAIN Val(map)
                      After(voter) ==
                        Falsy(startAfter) \/ localeCompare(voter, Val(startAfter)) > 0
                      voters == slice(SelectSeq(sortStrings(keys), After), limitNum)
                  IN Return(
                       [i \in 1..Len(voters) |->
                          info([voter |-> voters[i], vote |-> Val(map)[voters[i]],
                                votedAt |-> IF dated(voters)
                                            THEN getDateKeyModified(prefix \o <<voters[i]>>)
                                            ELSE None])],
                       l2 \o (IF dated(voters)
                              THEN [i \in 1..Len(voters) |->
                                      Lookup("getDateKeyModified", prefix \o <<voters[i]>>)]
                              ELSE <<>>))

voteCount(args) ==
  LET proposalId == Arg(args, "proposalId") IN
  IF Falsy(proposalId) \/ isNaN(Number(Val(proposalId)))
       \/ Number(Val(proposalId)) < 0
  THEN Throw("missing proposalId")
  ELSE LET name == <<"voteCount", Val(proposalId)>>
           match == getTransformationMatch(name)
       IN Return(IF match = None THEN None ELSE Some(Val(match).value),
                 <<Lookup("getTransformationMatch", name)>>)

----------------------------------------------------------------------------
(* openProposals                                                           *)

\* ({ id }) => vote.compute({ ...env, args: { proposalId, voter } })
voteOf(id, address) ==
  vote([proposalId |-> toString(id), voter |-> address])

\* { ...proposal, voted: !!openProposalVotes[index] }
tagged(response, voteInfo) == response @@ [voted |-> voteInfo # None]

\* Variant: every open proposal is tagged as voted on when an address is given.
openProposals_votedByAddress(args) ==
  LET list == listProposals(<<>>)
      IsOpen(response) == response.proposal.status = Open
      open == SelectSeq(list.value, IsOpen)
      address == Arg(args, "address")
  IN IF Falsy(address) THEN Return(open, list.lookups)
     ELSE LET votes == [i \in 1..Len(open) |-> voteOf(open[i].id, Val(address))]
          IN Return([i \in 1..Len(open) |-> tagged(open[i], address)],
                    list.lookups \o lookupsOf(votes))

openProposals(args) ==
  LET list == listProposals(<<>>)
      IsOpen(response) == response.proposal.status = Open
      open == SelectSeq(list.value, IsOpen)
      address == Arg(args, "address")
  IN IF Falsy(address) THEN Return(open, list.lookups)
     ELSE LET votes == [i \in 1..Len(open) |-> voteOf(open[i].id, Val(address))]
          IN Return([i \in 1..Len(open) |-> tagged(open[i], votes[i].value)],
                    list.lookups \o lookupsOf(votes))

----------------------------------------------------------------------------
(* config, dao, proposalCount and nextProposalId                           *)

config ==
  OrElse(Return(get(<<"config_v2">>), <<Lookup("get", <<"config_v2">>)>>),
         Return(get(<<"config">>), <<Lookup("get", <<"config">>)>>))

\* (await config.compute(env))?.dao
dao ==
  Return(IF config.value = None THEN None ELSE Some(Val(config.value).dao),
         config.lookups)

\* (await get(contractAddress, 'proposal_count')) ?? 0
proposalCount ==
  LET count == get(<<"proposal_count">>)
  IN Return(IF count = None THEN 0 ELSE Val(count).count,
            <<Lookup("get", <<"proposal_count">>)>>)

nextProposalId == Return(proposalCount.value + 1, proposalCount.lookups)

\* The compute function of each formula of the module.
compute(formula, args) ==
  CASE formula = "config" -> config
    [] formula = "dao" -> dao
    [] formula = "proposal" -> proposal(args)
    [] formula = "listProposals" -> listProposals(args)
    [] formula = "reverseProposals" -> reverseProposals(args)
    [] formula = "proposalCount" -> proposalCount
    [] formula = "nextProposalId" -> nextProposalId
    [] formula = "vote" -> vote(args)
    [] formula = "listVotes" -> listVotes(args)
    [] formula = "voteCount" -> voteCount(args)
    [] formula = "proposalCreatedAt" -> proposalCreatedAt(args)
    [] OTHER -> openProposals(args)

----------------------------------------------------------------------------
(* The declarations: which formulas are declared dynamic, and which        *)
(* formulas and helpers each compute function invokes.                     *)

Formulas ==
  {"config", "dao", "proposal", "listProposals", "reverseProposals",
   "proposalCount", "nextProposalId", "vote", "listVotes", "voteCount",
   "proposalCreatedAt", "openProposals"}

\* Variant: openProposals is declared without the flag.
dynamic_withoutOpenProposals(formula) ==
  formula \in {"proposal", "listProposals", "reverseProposals"}

\* dynamic: true
dynamic(formula) ==
  formula \in {"proposal", "listProposals", "reverseProposals", "openProposals"}

\* The formulas and helpers the compute function of `formula` invokes.
invokes(formula) ==
  CASE formula = "dao" -> {"config"}
    [] formula = "proposal" -> {"intoResponse"}
    [] formula = "listProposals" -> {"intoResponse"}
    [] formula = "reverseProposals" -> {"intoResponse"}
    [] formula = "nextProposalId" -> {"proposalCount"}
    [] formula = "openProposals" -> {"listProposals", "vote"}
    [] formula = "intoResponse" ->
         {"isPassed", "isRejected", "isExpirationExpired", "proposalCreatedAt"}
    [] OTHER -> {}

\* Everything `formula` invokes, directly or through what it invokes.
RECURSIVE composes(_, _)
composes(formula, depth) ==
  IF depth = 0 THEN {}
  ELSE invokes(formula)
         \cup UNION {composes(g, depth - 1) : g \in invokes(formula)}

----------------------------------------------------------------------------
(* The state machine: formula invocations against the query environment.   *)

NoResult == [formula |-> "none"]

Evaluated(formula, args, out) ==
  [formula |-> formula, args |-> args, ok |-> out.ok, value |-> out.value,
   lookups |-> out.lookups, dynamic |-> dynamic(formula), block |-> block]

\* The strings an id argument is drawn from.
IdStrings == {"", "abc", "-1", "0", "1", "01", "2"}
IdArgs == {<<>>} \cup {[id |-> s] : s \in IdStrings}

\* No Promise.all is in progress.
NoPending == [formula |-> "none"]

\* The code-identifier registry is a separate service: formula evaluation
\* neither reads nor writes it.
NoDatabase == [keys |-> <<>>, ids |-> {}]
Registry == UNCHANGED <<database, wasmCodes>>
NoRegistry == pending = NoPending /\ database = NoDatabase /\ wasmCodes = <<>>

Unchanged == UNCHANGED <<transformations, events, block>> /\ Registry

\* An invocation is evaluated and its outcome recorded in `result` until the
\* response is delivered.
Invoke(formula, args, out) ==
  /\ result = NoResult /\ pending = NoPending
  /\ result' = Evaluated(formula, args, out)
  /\ pending' = pending
  /\ Unchanged

Respond ==
  result # NoResult /\ result' = NoResult /\ pending' = pending /\ Unchanged

EvalProposal(args) == Invoke("proposal", args, proposal(args))

EvalListProposals(args) == Invoke("listProposals", args, listProposals(args))

EvalReverseProposals(args) == Invoke("reverseProposals", args, reverseProposals(args))

EvalVote(args) == Invoke("vote", args, vote(args))

EvalProposalCreatedAt(args) ==
  Invoke("proposalCreatedAt", args, proposalCreatedAt(args))

EvalListVotes(args) == Invoke("listVotes", args, listVotes(args))

EvalVoteCount(args) == Invoke("voteCount", args, voteCount(args))

EvalOpenProposals(args) == Invoke("openProposals", args, openProposals(args))

\* Any formula of the module, by name.
Eval(formula, args) == Invoke(formula, args, compute(formula, args))

\* The query environment moves on: a later request is evaluated at a later
\* clock or at a later height.
AdvanceTime ==
  /\ result = NoResult /\ pending = NoPending
  /\ block.time < MaxTime
  /\ block' = [block EXCEPT !.time = @ + 1]
  /\ result' = result
  /\ UNCHANGED <<transformations, events, pending>>
  /\ Registry

AdvanceHeight ==
  /\ result = NoResult /\ pending = NoPending
  /\ block.height < MaxHeight
  /\ block' = [block EXCEPT !.height = @ + 1]
  /\ result' = result
  /\ UNCHANGED <<transformations, events, pending>>
  /\ Registry

\* The clock moves on while a response is held by its consumer.
Elapse ==
  /\ result # NoResult /\ pending = NoPending
  /\ block.time < MaxTime
  /\ block' = [block EXCEPT !.time = @ + 1]
  /\ result' = result
  /\ UNCHANGED <<transformations, events, pending>>
  /\ Registry

Transformation(name, value, blockHeight) ==
  [name |-> name, value |-> value, blockHeight |-> blockHeight]
RawWrite(key, value, blockHeight) ==
  [key |-> key, value |-> value, blockHeight |-> blockHeight]

----------------------------------------------------------------------------
(* SpecStatus: one recorded proposal (id 1, any record, in any one of the  *)
(* three representations), queried at every clock.                         *)

InitStatus ==
  /\ NoRegistry
  /\ \E p \in Proposals :
       \/ /\ transformations = {Transformation(<<"proposal", "1">>, p, 1)}
          /\ events = {}
       \/ /\ transformations = {}
          /\ events = {RawWrite(<<"proposals_v2", 1>>, p, 1)}
       \/ /\ transformations = {}
          /\ events = {RawWrite(<<"proposals", 1>>, p, 1)}
  /\ block = [height |-> 1, time |-> 0]
  /\ result = NoResult

NextStatus ==
  \/ \E args \in IdArgs : EvalProposal(args)
  \/ Respond
  \/ AdvanceTime
  \/ AdvanceHeight

SpecStatus == InitStatus /\ [][NextStatus]_vars

\* The one recorded proposal of SpecStatus and the response to it.
TheRecord ==
  CHOOSE p \in {t.value : t \in transformations} \cup {e.value : e \in events} : TRUE
Responded == result.formula = "proposal" /\ result.ok /\ result.value # None
Response == Val(result.value)

\* C1: a recorded Open proposal whose pass condition holds is derived Passed
\* when no veto is configured; with a veto it is derived VetoTimelock with
\* expiration = proposal.expiration + veto.timelock_duration while that
\* expiration has not elapsed at the query time, and Passed once it has.
C1_OpenPassing ==
  (Responded /\ TheRecord.status = Open /\ isPassed(TheRecord)) =>
    IF TheRecord.veto = None
    THEN Response.proposal.status = Passed
    ELSE LET expiration ==
               TheRecord.expiration + Val(TheRecord.veto).timelock_duration
         IN IF isExpirationExpired(expiration)
            THEN Response.proposal.status = Passed
            ELSE Response.proposal.status = VetoTimelock(expiration)

C1_Witness ==
  /\ Responded /\ TheRecord.status = Open /\ isPassed(TheRecord)
  /\ TheRecord.veto # None
  /\ Response.proposal.status =
       VetoTimelock(TheRecord.expiration + Val(TheRecord.veto).timelock_duration)

\* C2: a recorded Open proposal whose pass condition does not hold is derived
\* Rejected iff its own expiration has elapsed or the reject condition holds,
\* and stays Open otherwise; a passing Open proposal is never derived
\* Rejected, expired or not.
C2_OpenNotPassing ==
  (Responded /\ TheRecord.status = Open) =>
    IF isPassed(TheRecord)
    THEN Response.proposal.status # Rejected
    ELSE IF isExpirationExpired(TheRecord.expiration) \/ isRejected(TheRecord)
         THEN Response.proposal.status = Rejected
         ELSE Response.proposal.status = Open

C2_Witness ==
  /\ Responded /\ TheRecord.status = Open /\ ~isPassed(TheRecord)
  /\ ~isRejected(TheRecord) /\ isExpirationExpired(TheRecord.expiration)
  /\ Response.proposal.status = Rejected

\* C3: a recorded VetoTimelock(expiration) is derived Passed iff that
\* expiration has elapsed at the query time, and is returned unchanged, with
\* the same expiration, otherwise.
C3_VetoTimelock ==
  (Responded /\ TheRecord.status.kind = "veto_timelock") =>
    IF isExpirationExpired(TheRecord.status.expiration)
    THEN Response.proposal.status = Passed
    ELSE Response.proposal.status = TheRecord.status

C3_Witness ==
  /\ Responded /\ TheRecord.status.kind = "veto_timelock"
  /\ isExpirationExpired(TheRecord.status.expiration)
  /\ Response.proposal.status = Passed

\* C4: the response's status is Executed, ExecutionFailed or Closed iff the
\* recorded status is that same status, and a recorded Passed or Rejected is
\* returned as recorded, at every query time and for every outcome of the
\* pass and reject conditions.
Terminal == {Executed, ExecutionFailed, Closed}
C4_TerminalNeverDerived ==
  Responded =>
    /\ (Response.proposal.status \in Terminal \/ TheRecord.status \in Terminal)
         => Response.proposal.status = TheRecord.status
    /\ TheRecord.status \in {Passed, Rejected}
         => Response.proposal.status = TheRecord.status

C4_Witness ==
  /\ Responded /\ TheRecord.status = Executed /\ isPassed(TheRecord)
  /\ isExpirationExpired(TheRecord.expiration)
  /\ Response.proposal.status = Executed

----------------------------------------------------------------------------
(* SpecClock: the one recorded proposal of SpecStatus, queried at some     *)
(* clock and queried again as the clock moves on while the first response  *)
(* is held.                                                                *)

NextClock ==
  \/ EvalProposal([id |-> "1"])
  \/ Respond
  \/ AdvanceTime
  \/ Elapse

SpecClock == InitStatus /\ [][NextClock]_vars

\* The derived status moves from `earlier` to `later` only forward: it stays,
\* or leaves Open for VetoTimelock, Passed or Rejected, or leaves
\* VetoTimelock for Passed.
Forward(earlier, later) ==
  \/ later = earlier
  \/ earlier = Open /\ later.kind \in {"veto_timelock", "passed", "rejected"}
  \/ earlier.kind = "veto_timelock" /\ later = Passed

\* The status the proposal formula derives at the clock of the state.
StatusNow == Val(proposal(result.args).value).proposal.status

\* C23: with the log, the height and the tally fixed, the status derived at
\* a later query time is the status derived at an earlier one or a step
\* forward from it; a status derived Passed or Rejected is derived again at
\* every later time, and none returns to Open or VetoTimelock.
C23_MonotoneInTime ==
  (Responded /\ result.block.time <= block.time) =>
    /\ Forward(Response.proposal.status, StatusNow)
    /\ Response.proposal.status \in {Passed, Rejected} =>
         StatusNow = Response.proposal.status

\* A response derived VetoTimelock is held while the clock passes the end
\* of the timelock, and the status derived now is Passed.
C23_Witness ==
  /\ Responded /\ result.block.time < block.time
  /\ TheRecord.status = Open
  /\ Response.proposal.status.kind = "veto_timelock"
  /\ StatusNow = Passed

----------------------------------------------------------------------------
(* SpecLookup: proposal 1 recorded in any combination of the three         *)
(* representations, each with its own history, or the vote of voter "a"    *)
(* on proposal 1 recorded as voteCast Transformations and raw ballots.     *)

Heights == 1..MaxHeight

\* The history of a proposal in one representation: never written; created
\* Open; or created Open and completed at a later height.
Completions == {Passed, Executed, Closed}
StatusHistories ==
  {{}} \cup {{<<Open, c>>} : c \in Heights}
    \cup {{<<Open, cd[1]>>, <<s, cd[2]>>} :
            cd \in {x \in Heights \X Heights : x[1] < x[2]}, s \in Completions}

LookupRecord(status, passCondition) ==
  [status |-> status, expiration |-> MaxExpiration, veto |-> None,
   passCondition |-> passCondition, rejectCondition |-> FALSE]

\* The history of a ballot: at each height written or not.
Ballots == {[vote |-> "yes"], [vote |-> "no"]}
BallotHistories ==
  UNION {[H -> Ballots] : H \in SUBSET Heights}

InitLookup ==
  /\ NoRegistry
  /\ block = [height |-> 1, time |-> 0]
  /\ result = NoResult
  /\ \/ \E pc \in BOOLEAN, hT \in StatusHistories, h2 \in StatusHistories,
           h1 \in StatusHistories :
          /\ transformations =
               {Transformation(<<"proposal", "1">>, LookupRecord(x[1], pc), x[2]) : x \in hT}
          /\ events =
               {RawWrite(<<"proposals_v2", 1>>, LookupRecord(x[1], pc), x[2]) : x \in h2}
                 \cup {RawWrite(<<"proposals", 1>>, LookupRecord(x[1], pc), x[2]) : x \in h1}
     \/ \E hT \in BallotHistories, hR \in BallotHistories :
          /\ transformations =
               {Transformation(<<"voteCast", "a", "1">>,
                               [voter |-> "a", vote |-> hT[h], votedAt |-> Some(h)], h)
                  : h \in DOMAIN hT}
          /\ events = {RawWrite(<<"ballots", 1, "a">>, hR[h], h) : h \in DOMAIN hR}

LookupIdArgs == {[id |-> "1"], [id |-> "01"], [id |-> "2"]}
LookupListArgs == {<<>>, [filter |-> "passed"]}
LookupVoteArgs ==
  {[proposalId |-> "1", voter |-> "a"], [proposalId |-> "01", voter |-> "a"],
   [proposalId |-> "1", voter |-> "b"]}

NextLookup ==
  \/ \E args \in LookupIdArgs : EvalProposal(args)
  \/ \E args \in LookupListArgs : EvalListProposals(args)
  \/ EvalReverseProposals(<<>>)
  \/ \E args \in LookupVoteArgs : EvalVote(args)
  \/ Respond
  \/ AdvanceHeight

SpecLookup == InitLookup /\ [][NextLookup]_vars

\* What the environment holds for the invocation in `result`.
LookedUp(fn, schema) ==
  \E i \in 1..Len(result.lookups) :
    result.lookups[i].fn = fn /\ result.lookups[i].key[1] = schema
ReturnedBy(formula) == result.formula = formula /\ result.ok
ProposalMatch == getTransformationMatch(<<"proposal", result.args.id>>)
ProposalV2 == get(<<"proposals_v2", Number(result.args.id)>>)
ProposalV1 == get(<<"proposals", Number(result.args.id)>>)
VoteMatch ==
  getTransformationMatch(<<"voteCast", result.args.voter, result.args.proposalId>>)
Derived(p) == [p EXCEPT !.status = updateStatus(p)]

\* C5: when a Transformation proposal:<id> exists at or before the query
\* height, the proposal formula's response is built from its value and no raw
\* proposal path is read; when a Transformation voteCast:<voter>:<id> exists,
\* the vote formula returns its vote and reads no raw ballot.
C5_TransformationFirst ==
  /\ (ReturnedBy("proposal") /\ ProposalMatch # None) =>
       /\ result.value # None
       /\ Response.proposal = Derived(Val(ProposalMatch).value)
       /\ ~LookedUp("get", "proposals_v2") /\ ~LookedUp("get", "proposals")
  /\ (ReturnedBy("vote") /\ VoteMatch # None) =>
       /\ result.value # None
       /\ Response.vote = Val(VoteMatch).value.vote
       /\ Response.votedAt = Val(VoteMatch).value.votedAt
       /\ ~LookedUp("get", "ballots") /\ ~LookedUp("getDateKeyModified", "ballots")

C5_Witness ==
  /\ ReturnedBy("proposal") /\ ProposalMatch # None /\ ProposalV2 # None
  /\ Val(ProposalV2).status # Val(ProposalMatch).value.status
  /\ Response.proposal.status = Closed
  /\ Val(ProposalMatch).value.status = Closed

ListReturned == ReturnedBy("listProposals") \/ ReturnedBy("reverseProposals")
ProposalMap == getTransformationMap("proposal")
ProposalsV2 == getMap(<<"proposals_v2">>)
ProposalsV1 == getMap(<<"proposals">>)
Items == {result.value[i] : i \in 1..Len(result.value)}

\* C6: without a Transformation the raw schemas are consulted in the order
\* proposals_v2, proposals: the v1 path is read only if the v2 lookup is
\* absent, a record found in v2 is the one used, and with only v1 writes the
\* record and its creation date come from v1; the proposal formula returns
\* absent, without error, exactly when all three lookups are absent, and the
\* list formulas return the empty list then.
C6_RawSchemaOrder ==
  /\ ReturnedBy("proposal") =>
       /\ LookedUp("get", "proposals") => (ProposalMatch = None /\ ProposalV2 = None)
       /\ (ProposalMatch = None /\ ProposalV2 # None) =>
            (result.value # None /\ Response.proposal = Derived(Val(ProposalV2)))
       /\ (ProposalMatch = None /\ ProposalV2 = None /\ ProposalV1 # None) =>
            /\ result.value # None
            /\ Response.proposal = Derived(Val(ProposalV1))
            /\ LookedUp("get", "proposals_v2") /\ LookedUp("get", "proposals")
       /\ result.value = None <=>
            (ProposalMatch = None /\ ProposalV2 = None /\ ProposalV1 = None)
  /\ ListReturned =>
       /\ LookedUp("getMap", "proposals") => (ProposalMap = None /\ ProposalsV2 = None)
       /\ (ProposalMap = None /\ ProposalsV2 # None) =>
            \A r \in Items : r.proposal = Derived(Val(ProposalsV2)[r.id])
       /\ (ProposalMap = None /\ ProposalsV2 = None /\ ProposalsV1 # None) =>
            /\ \A r \in Items :
                 /\ r.proposal = Derived(Val(ProposalsV1)[r.id])
                 /\ r.createdAt = getDateKeyFirstSet(<<"proposals", r.id>>)
            /\ "filter" \notin DOMAIN result.args =>
                 {r.id : r \in Items} = DOMAIN Val(ProposalsV1)
       /\ (ProposalMap = None /\ ProposalsV2 = None /\ ProposalsV1 = None) =>
            result.value = <<>>

C6_Witness ==
  /\ ReturnedBy("listProposals") /\ result.args = <<>>
  /\ ProposalMap = None /\ ProposalsV2 = None /\ ProposalsV1 # None
  /\ LookedUp("getMap", "proposals")
  /\ Len(result.value) = 1
  /\ result.value[1].proposal = Derived(Val(ProposalsV1)[1])

\* The raw schema the record of proposal `id` was resolved from by the
\* formula in `result`, "" if it was not resolved from a raw schema.
ResolvedFrom(id) ==
  IF result.formula = "proposal"
  THEN IF ProposalMatch # None THEN ""
       ELSE IF ProposalV2 # None THEN "proposals_v2"
       ELSE IF ProposalV1 # None THEN "proposals" ELSE ""
  ELSE IF ProposalMap # None THEN ""
       ELSE IF ProposalsV2 # None THEN "proposals_v2"
       ELSE IF ProposalsV1 # None THEN "proposals" ELSE ""

Responses ==
  IF result.formula = "proposal"
  THEN (IF result.value = None THEN {} ELSE {Response})
  ELSE Items

RecordedAs(schema, id, kinds) ==
  \E e \in WritesTo(<<schema, id>>) : e.value.status.kind \in kinds

\* C7: when the proposal record is resolved from a raw schema, every raw
\* fallback lookup for executedAt, closedAt and completedAt reads the path of
\* that same schema, and each of the three timestamps that applies to the
\* derived status is present whenever a write with a matching status exists
\* under that schema.
C7_SchemaRemembered ==
  ((ReturnedBy("proposal") \/ ListReturned)
     /\ \E r \in Responses : ResolvedFrom(r.id) # "") =>
    /\ \A i \in 1..Len(result.lookups) :
         result.lookups[i].fn = "getDateKeyFirstSetWithValueMatch" =>
           result.lookups[i].key[1] = ResolvedFrom(result.lookups[i].key[2])
    /\ \A r \in Responses :
         LET schema == ResolvedFrom(r.id)
             status == r.proposal.status
         IN /\ (status \in {Executed, ExecutionFailed}
                  /\ RecordedAs(schema, r.id, {"executed", "execution_failed"}))
                 => r.executedAt # None
            /\ (status = Closed /\ RecordedAs(schema, r.id, {"closed"}))
                 => r.closedAt # None
            /\ (status # Open
                  /\ RecordedAs(schema, r.id, {"passed", "rejected"}))
                 => r.completedAt # None

C7_Witness ==
  /\ ReturnedBy("proposal") /\ result.value # None
  /\ ResolvedFrom(1) = "proposals_v2"
  /\ Response.proposal.status = Executed
  /\ RecordedAs("proposals", 1, {"closed"})
  /\ LookedUp("getDateKeyFirstSetWithValueMatch", "proposals_v2")
  /\ Response.executedAt = Some(2)

\* The height of the earliest fact of proposal `id` recorded passed or
\* rejected: among its Transformations if there is one, otherwise among the
\* writes of the raw schema the fallback lookups read.
Earliest(facts) ==
  IF facts = {} THEN None
  ELSE Some(CHOOSE h \in {f.blockHeight : f \in facts} :
              \A f \in facts : h <= f.blockHeight)
PassedOrRejectedAt(id) ==
  LET kinds == {"passed", "rejected"}
      T == {t \in Named(<<"proposal", toString(id)>>) : t.value.status.kind \in kinds}
      schema == IF ResolvedFrom(id) = "proposals_v2" THEN "proposals_v2" ELSE "proposals"
      R == {e \in WritesTo(<<schema, id>>) : e.value.status.kind \in kinds}
  IN IF T # {} THEN Earliest(T) ELSE Earliest(R)

C25_DatesByStatus ==
  Responded =>
    LET status == Response.proposal.status
    IN /\ Response.executedAt # None => status \in {Executed, ExecutionFailed}
       /\ Response.closedAt # None => status = Closed
       /\ Response.completedAt # None => status # Open
       /\ Response.executedAt = None \/ Response.closedAt = None
       /\ status = Open =>
            /\ Response.executedAt = None
            /\ Response.closedAt = None
            /\ Response.completedAt = None

\* A response with status Open and none of the dates, on a log in which a
\* raw write under proposals records the proposal passed, executed or closed.
C25_Witness ==
  /\ Responded /\ Response.proposal.status = Open
  /\ Response.completedAt = None
  /\ getDateKeyFirstSetWithValueMatch(<<"proposals", 1>>,
                                      {"passed", "executed", "closed"}) # None

----------------------------------------------------------------------------
(* SpecList: any set of proposals with ids in 1..MaxId, recorded as         *)
(* Transformations or as v1 raw writes, listed with every cursor, limit    *)
(* and filter.                                                             *)

\* Which of the listed proposals are recorded Passed; the others are Open.
PassedPatterns == {"odd", "even"}
ListRecord(id, pattern) ==
  [status |-> IF \/ pattern = "odd" /\ id % 2 = 1
                 \/ pattern = "even" /\ id % 2 = 0
              THEN Passed ELSE Open,
   expiration |-> MaxExpiration, veto |-> None,
   passCondition |-> FALSE, rejectCondition |-> FALSE]

InitList ==
  /\ NoRegistry
  /\ block = [height |-> 1, time |-> 0]
  /\ result = NoResult
  /\ \E ids \in SUBSET (1..MaxId), pattern \in PassedPatterns :
       \/ /\ transformations =
               {Transformation(<<"proposal", toString(id)>>, ListRecord(id, pattern), 1)
                  : id \in ids}
          /\ events = {}
       \/ /\ transformations = {}
          /\ events =
               {RawWrite(<<"proposals", id>>, ListRecord(id, pattern), 1) : id \in ids}

\* An argument that may be missing.
Optional(name, strings) == {<<>>} \cup {[k \in {name} |-> s] : s \in strings}

LimitStrings == {"", "0", "1", "2", "abc", "-1"}
StartAfterStrings == {"", "0", "3", "abc", "-1"}
StartBeforeStrings == {"", "0", "5", "abc", "-1"}

ListArgs ==
  {a @@ b @@ c : a \in Optional("limit", LimitStrings),
                 b \in Optional("startAfter", StartAfterStrings),
                 c \in Optional("filter", {"passed"})}
ReverseArgs ==
  {a @@ b : a \in Optional("limit", LimitStrings),
            b \in Optional("startBefore", StartBeforeStrings)}

NextList ==
  \/ \E args \in ListArgs : EvalListProposals(args)
  \/ \E args \in ReverseArgs : EvalReverseProposals(args)
  \/ Respond

SpecList == InitList /\ [][NextList]_vars

\* The ids of the proposals recorded at or before the query height.
RecordedIds ==
  {Number(t.name[2]) : t \in {u \in AtOrBefore(transformations) : u.name[1] = "proposal"}}
    \cup {e.key[2] : e \in {w \in AtOrBefore(events) :
                              w.key[1] \in {"proposals_v2", "proposals"}}}
RecordOf(id) ==
  (CHOOSE f \in AtOrBefore(transformations) \cup AtOrBefore(events) :
     IF "name" \in DOMAIN f THEN f.name = <<"proposal", toString(id)>>
     ELSE f.key \in {<<"proposals_v2", id>>, <<"proposals", id>>}).value

ResultIds == [i \in 1..Len(result.value) |-> result.value[i].id]
IdsOf(seq) == {seq[i] : i \in 1..Len(seq)}

\* A cursor or limit argument the claims speak of: missing or empty, or an
\* integer (a limit: a non-negative one).
Given(name) == ~Falsy(Arg(result.args, name))
IsCursor(name) == Given(name) => ~isNaN(Number(result.args[name]))
IsLimit(name) == Given(name) => Number(result.args[name]) >= 0

\* `ids` holds exactly the first `limit` of `eligible` in the order Before.
FirstOf(ids, eligible, Before(_, _)) ==
  /\ \A i \in 1..Len(ids), j \in 1..Len(ids) : i < j => Before(ids[i], ids[j])
  /\ IdsOf(ids) \subseteq eligible
  /\ \A x \in IdsOf(ids), y \in eligible \ IdsOf(ids) : Before(x, y)
  /\ Len(ids) = IF Given("limit")
                THEN Min(Number(result.args.limit), Cardinality(eligible))
                ELSE Cardinality(eligible)

Ascending(a, b) == a < b
Descending(a, b) == a > b
AfterCursor ==
  {id \in RecordedIds : Given("startAfter") => id > Number(result.args.startAfter)}
BeforeCursor ==
  {id \in RecordedIds : Given("startBefore") => id < Number(result.args.startBefore)}
PassedKinds == {Passed, Executed, ExecutionFailed}

C9_DescendingPage ==
  (ReturnedBy("reverseProposals") /\ IsCursor("startBefore") /\ IsLimit("limit")) =>
    FirstOf(ResultIds, BeforeCursor, Descending)

C9_Witness ==
  /\ ReturnedBy("reverseProposals")
  /\ RecordedIds = {1, 3, 5, 7}
  /\ result.args = [startBefore |-> "5"]
  /\ ResultIds = <<3, 1>>

\* The ids after the cursor whose derived status passes the status filter.
PassedAfterCursor ==
  {id \in AfterCursor : updateStatus(RecordOf(id)) \in PassedKinds}

\* C22 as claimed: with filter = passed, listProposals returns, in ascending
\* id order, exactly the first `limit` of the ids strictly greater than the
\* cursor whose derived status is Passed, Executed or ExecutionFailed (all of
\* them when fewer exist or no limit is given): the limit cuts after the
\* status filter.
C22_Claimed ==
  (/\ ReturnedBy("listProposals") /\ Arg(result.args, "filter") = Some("passed")
   /\ IsCursor("startAfter") /\ IsLimit("limit")) =>
    FirstOf(ResultIds, PassedAfterCursor, Ascending)

----------------------------------------------------------------------------
(* SpecArgs: every formula that takes a proposal id, invoked with every    *)
(* argument string, against logs that hold proposal 1 and a vote on it.    *)

ArgsRecord ==
  [status |-> Open, expiration |-> MaxExpiration, veto |-> None,
   passCondition |-> FALSE, rejectCondition |-> FALSE]

InitArgs ==
  /\ NoRegistry
  /\ block \in [height : Heights, time : {0}]
  /\ result = NoResult
  /\ \E tp \in SUBSET {"proposal", "voteCast", "voteCount"},
        ev \in SUBSET {"proposals_v2", "proposals", "ballots"} :
       /\ transformations =
            {Transformation(<<"proposal", "1">>, ArgsRecord, 1) : x \in tp \cap {"proposal"}}
              \cup {Transformation(<<"voteCast", "a", "1">>,
                                   [voter |-> "a", vote |-> [vote |-> "yes"],
                                    votedAt |-> Some(1)], 1) : x \in tp \cap {"voteCast"}}
              \cup {Transformation(<<"voteCount", "1">>, [count |-> 1], 1) : x \in tp \cap {"voteCount"}}
       /\ events =
            {RawWrite(<<k, 1>>, ArgsRecord, 1) : k \in ev \cap {"proposals_v2", "proposals"}}
              \cup {RawWrite(<<"ballots", 1, "a">>, [vote |-> "yes"], 1)
                      : x \in ev \cap {"ballots"}}

ProposalIdArgs == {<<>>} \cup {[proposalId |-> s] : s \in IdStrings}
VoteArgs ==
  {a @@ b : a \in ProposalIdArgs, b \in Optional("voter", {"", "a"})}
ListVotesArgs ==
  {a @@ b @@ c : a \in ProposalIdArgs, b \in Optional("limit", {"1"}),
                 c \in Optional("startAfter", {"a"})}

NextArgs ==
  \/ \E args \in IdArgs : EvalProposal(args)
  \/ \E args \in IdArgs : EvalProposalCreatedAt(args)
  \/ \E args \in VoteArgs : EvalVote(args)
  \/ \E args \in ListVotesArgs : EvalListVotes(args)
  \/ \E args \in ProposalIdArgs : EvalVoteCount(args)
  \/ Respond

SpecArgs == InitArgs /\ [][NextArgs]_vars

\* The id argument of the invocation in `result`, and whether it is missing,
\* empty, non-numeric or negative.
IntegerStrings == {"0", "1", "01", "2", "-1"}
IdArgument ==
  Arg(result.args, IF result.formula \in {"proposal", "proposalCreatedAt"}
                   THEN "id" ELSE "proposalId")
InvalidId ==
  \/ IdArgument = None
  \/ Val(IdArgument) \notin IntegerStrings
  \/ Val(IdArgument) = "-1"
Failed == ~result.ok /\ result.lookups = <<>>

\* C10: proposal, proposalCreatedAt, vote, listVotes and voteCount fail, with
\* no environment lookup issued, when the proposal id is missing, empty,
\* non-numeric or negative, and vote also when the voter is empty.
C10_Claimed ==
  result.formula \in {"proposal", "proposalCreatedAt", "vote", "listVotes", "voteCount"} =>
    /\ InvalidId => Failed
    /\ (result.formula = "vote" /\ Falsy(Arg(result.args, "voter"))) => Failed

----------------------------------------------------------------------------
(* SpecCompose: proposals 1 and 2 and the votes of address "a" on them,    *)
(* recorded as Transformations or as raw writes, queried through every     *)
(* formula of the module at every clock and height.                        *)

\* The records of proposal 1: Open with any expiration and tally, or Closed.
ComposeRecords ==
  {[status |-> Open, expiration |-> e, veto |-> None,
    passCondition |-> pc, rejectCondition |-> FALSE]
     : e \in Expirations, pc \in BOOLEAN}
    \cup {[status |-> Closed, expiration |-> MaxExpiration, veto |-> None,
           passCondition |-> FALSE, rejectCondition |-> FALSE]}

\* The fact that records proposal `id` in the representation `family`.
ProposalFact(family, id, record, h) ==
  IF family = "proposal"
  THEN [t |-> {Transformation(<<"proposal", toString(id)>>, record, h)}, e |-> {}]
  ELSE [t |-> {}, e |-> {RawWrite(<<family, id>>, record, h)}]

\* The fact that records the vote of `voter` on proposal `id`.
VoteFact(family, voter, id, h) ==
  IF family = "voteCast"
  THEN [t |-> {Transformation(<<"voteCast", voter, toString(id)>>,
                              [voter |-> voter, vote |-> [vote |-> "yes"],
                               votedAt |-> Some(h)], h)},
        e |-> {}]
  ELSE [t |-> {}, e |-> {RawWrite(<<"ballots", id, voter>>, [vote |-> "yes"], h)}]

NoFact == [t |-> {}, e |-> {}]

InitCompose ==
  /\ NoRegistry
  /\ block = [height |-> 1, time |-> 0]
  /\ result = NoResult
  /\ \E family \in {"proposal", "proposals_v2"} :
     \E first \in {NoFact} \cup {ProposalFact(family, 1, r, h)
                                   : r \in ComposeRecords, h \in Heights},
        second \in {NoFact, ProposalFact(family, 2, ArgsRecord, 1)},
        ballot \in {NoFact, VoteFact("voteCast", "a", 1, 1),
                    VoteFact("ballots", "a", 1, 1)},
        counted \in BOOLEAN :
       /\ transformations = first.t \cup second.t \cup ballot.t
       /\ events =
            first.e \cup second.e \cup ballot.e
              \cup {RawWrite(<<k>>, [dao |-> "dao", count |-> 2], 1)
                      : k \in IF counted THEN {"config", "proposal_count"} ELSE {}}

\* The arguments each formula is invoked with.
ComposeArgs(formula) ==
  CASE formula \in {"proposal", "proposalCreatedAt"} -> {[id |-> "1"], [id |-> "2"]}
    [] formula = "vote" -> {[proposalId |-> "1", voter |-> "a"],
                            [proposalId |-> "2", voter |-> "a"]}
    [] formula \in {"listVotes", "voteCount"} -> {[proposalId |-> "1"]}
    [] formula = "openProposals" -> {<<>>, [address |-> ""], [address |-> "a"]}
    [] OTHER -> {<<>>}

NextCompose ==
  \/ \E formula \in Formulas : \E args \in ComposeArgs(formula) : Eval(formula, args)
  \/ Respond
  \/ AdvanceTime
  \/ AdvanceHeight
  \/ Elapse

SpecCompose == InitCompose /\ [][NextCompose]_vars

\* What `formula` composes that reads the query-time clock.
ClockReaders(formula) ==
  {g \in composes(formula, 3) :
     g = "isExpirationExpired" \/ (g \in Formulas /\ dynamic(g))}

\* The response in `result` is what the same invocation yields now.
StillValid ==
  LET now == compute(result.formula, result.args)
  IN now.ok = result.ok /\ now.value = result.value /\ now.lookups = result.lookups

\* C11: a formula that composes, directly or through what it invokes, an
\* expiration check or a formula declared dynamic is itself declared dynamic,
\* and a response whose value is no longer what the formula yields once only
\* the query clock has moved on was reported dynamic.
C11_FlagPropagates ==
  /\ \A formula \in Formulas : ClockReaders(formula) # {} => dynamic(formula)
  /\ (result # NoResult /\ ~StillValid) => result.dynamic

\* openProposals listed proposal 1 as open before its expiration and was
\* reported dynamic; past the expiration it no longer lists it.
C11_Witness ==
  /\ result.formula = "openProposals" /\ result.ok /\ result.dynamic
  /\ ResultIds = <<1>>
  /\ result.block.time < result.value[1].proposal.expiration
  /\ isExpirationExpired(result.value[1].proposal.expiration)
  /\ compute("openProposals", result.args).value = <<>>

\* The address argument of openProposals, and whether the ballot of that
\* address on proposal `id` is recorded at or before the query height.
Address == Arg(result.args, "address")
HasVoted(address, id) ==
  \/ Named(<<"voteCast", address, toString(id)>>) # {}
  \/ WritesTo(<<"ballots", id, address>>) # {}

\* C18: openProposals returns, ascending by id, exactly the recorded
\* proposals whose derived status is Open; with an address each item is
\* tagged voted iff a vote of that address on that proposal is recorded;
\* without an address no item is tagged and no vote is looked up.
C18_OpenProposals ==
  (ReturnedBy("openProposals") /\ result.block = block) =>
    /\ ResultIds = sortAscending({id \in RecordedIds : updateStatus(RecordOf(id)) = Open})
    /\ \A i \in 1..Len(result.value) : result.value[i].proposal.status = Open
    /\ IF Falsy(Address)
       THEN /\ \A i \in 1..Len(result.value) : "voted" \notin DOMAIN result.value[i]
            /\ ~LookedUp("getTransformationMatch", "voteCast")
            /\ ~LookedUp("get", "ballots")
       ELSE \A i \in 1..Len(result.value) :
              result.value[i].voted = HasVoted(Val(Address), result.value[i].id)

C18_Witness ==
  /\ ReturnedBy("openProposals") /\ result.block = block /\ Address = Some("a")
  /\ ResultIds = <<1, 2>>
  /\ result.value[1].voted /\ ~result.value[2].voted
  /\ WritesTo(<<"ballots", 1, "a">>) # {}

----------------------------------------------------------------------------
(* SpecIngest: the log grows beyond the query height while proposal 1 and  *)
(* the vote of address "a" on it are queried at a fixed clock.             *)

ClosedRecord == [ArgsRecord EXCEPT !.status = Closed]

\* The facts ingestion may append at height h.
Ingestible(h) ==
  {ProposalFact("proposal", 1, ClosedRecord, h),
   ProposalFact("proposals_v2", 1, ClosedRecord, h),
   VoteFact("voteCast", "a", 1, h)}

\* Ingestion appends a fact of a block above the queried height.
Ingest ==
  /\ pending = NoPending
  /\ \E h \in Heights : \E fact \in Ingestible(h) :
       /\ h > block.height
       /\ transformations' = transformations \cup fact.t
       /\ events' = events \cup fact.e
  /\ UNCHANGED <<block, result, pending>>
  /\ Registry

InitIngest ==
  /\ NoRegistry
  /\ block = [height |-> 1, time |-> 0]
  /\ result = NoResult
  /\ \E first \in {NoFact, ProposalFact("proposal", 1, ArgsRecord, 1),
                   ProposalFact("proposals_v2", 1, ArgsRecord, 1),
                   ProposalFact("proposals", 1, ArgsRecord, 1)},
        ballot \in {NoFact, VoteFact("voteCast", "a", 1, 1),
                    VoteFact("ballots", "a", 1, 1)} :
       /\ transformations = first.t \cup ballot.t
       /\ events = first.e \cup ballot.e

NextIngest ==
  \/ \E formula \in Formulas : \E args \in ComposeArgs(formula) : Eval(formula, args)
  \/ Respond
  \/ AdvanceHeight
  \/ Ingest

SpecIngest == InitIngest /\ [][NextIngest]_vars

\* The facts of proposal result.args.id in one representation.
FactsOf(family) ==
  IF family = "proposal"
  THEN {t \in transformations : t.name = <<"proposal", result.args.id>>}
  ELSE {e \in events : e.key = <<family, Number(result.args.id)>>}

\* f is the latest of `facts` at or below the query height.
Current(f, facts) ==
  /\ f.blockHeight <= block.height
  /\ \A g \in facts : g.blockHeight <= block.height => g.blockHeight <= f.blockHeight

\* C12: a response stays what the formula yields at its height and clock
\* while facts of higher blocks are appended; the proposal formula reads, in
\* the representation that wins, the latest fact at or below the query height,
\* and returns absent when every fact of the proposal lies above it.
C12_NoFutureReads ==
  /\ result # NoResult => StillValid
  /\ ReturnedBy("proposal") =>
       /\ \A f \in FactsOf("proposal") :
            Current(f, FactsOf("proposal"))
              => (result.value # None /\ Response.proposal = Derived(f.value))
       /\ \A f \in FactsOf("proposals_v2") :
            (Current(f, FactsOf("proposals_v2")) /\ ProposalMatch = None)
              => (result.value # None /\ Response.proposal = Derived(f.value))
       /\ (\A f \in FactsOf("proposal") \cup FactsOf("proposals_v2")
                      \cup FactsOf("proposals") : f.blockHeight > block.height)
            => result.value = None

\* Proposal 1 was closed in a block above the query height: the response
\* still carries the open record.
C12_Witness ==
  /\ ReturnedBy("proposal") /\ result.args = [id |-> "1"] /\ result.value # None
  /\ Response.proposal.status = Open
  /\ \E f \in FactsOf("proposal") :
       f.blockHeight > block.height /\ f.value.status = Closed
  /\ \E f \in FactsOf("proposal") : Current(f, FactsOf("proposal"))

----------------------------------------------------------------------------
(* SpecConcurrent: listProposals, reverseProposals and openProposals with  *)
(* their per-proposal sub-evaluations in flight: every sub-evaluation is   *)
(* started at dispatch and they settle in any order.                       *)

\* The sub-evaluations dispatched by one Promise.all.
Dispatched(formula, args, stage, items, v2, lookups) ==
  [formula |-> formula, args |-> args, stage |-> stage, items |-> items,
   v2 |-> v2, lookups |-> lookups,
   slots |-> [i \in 1..Len(items) |-> None], order |-> <<>>]

\* Variant: the outcomes are collected in the order in which they settled.
collected_completionOrder(p) ==
  [k \in 1..Len(p.items) |-> Val(p.slots[p.order[k]])]

\* await Promise.all(...): the outcomes, in the order of dispatch.
collected(p) == [i \in 1..Len(p.items) |-> Val(p.slots[i])]

\* The ids of the page and the records of the resolved map, as dispatched.
pageOf(formula, args, proposals) ==
  IF formula = "reverseProposals"
  THEN pageDescending(
         DOMAIN proposals,
         IF Falsy(Arg(args, "startBefore")) THEN Infinity
         ELSE MathMax0(Number(args.startBefore)),
         limitNumOf(Arg(args, "limit")))
  ELSE pageAscending(
         DOMAIN proposals,
         IF formula = "openProposals" \/ Falsy(Arg(args, "startAfter"))
         THEN NegInfinity ELSE MathMax0(Number(args.startAfter)),
         IF formula = "openProposals" THEN Infinity
         ELSE limitNumOf(Arg(args, "limit")))

\* proposalIds.map((id) => intoResponse(env, proposals![id], id, { v2 }))
Dispatch(formula, args) ==
  /\ result = NoResult /\ pending = NoPending
  /\ LET r == resolveProposals
         proposals == IF r.proposals = None THEN <<>> ELSE Val(r.proposals)
         ids == pageOf(formula, args, proposals)
     IN pending' =
          Dispatched(formula, args, "responses",
                     [i \in 1..Len(ids) |-> [id |-> ids[i], proposal |-> proposals[ids[i]]]],
                     r.v2, r.lookups)
  /\ result' = result
  /\ Unchanged

\* What settling sub-evaluation i leaves in the evaluation: its outcome in
\* slot i and, for intoResponse, the derived status assigned to the proposal
\* object it was given (proposal.status = ...).
settled(p, i) ==
  LET item == p.items[i]
  IN IF p.stage = "responses"
     THEN LET out == intoResponse(item.proposal, item.id, p.v2)
          IN [p EXCEPT !.slots[i] = Some(out), !.order = Append(@, i),
                       !.items[i].proposal.status = out.value.proposal.status]
     ELSE [p EXCEPT !.slots[i] = Some(voteOf(item.id, p.args.address)),
                    !.order = Append(@, i)]

\* Variant: the proposal object is the one the environment serves, so the
\* derived status shows in the facts.
Settle_writeBack(i) ==
  /\ pending # NoPending
  /\ i \in 1..Len(pending.items) /\ pending.slots[i] = None
  /\ pending' = settled(pending, i)
  /\ result' = result
  /\ LET id == pending.items[i].id
         status == pending'.items[i].proposal.status
     IN IF pending.stage = "responses"
        THEN /\ transformations' =
                  {IF t.name = <<"proposal", toString(id)>>
                   THEN [t EXCEPT !.value.status = status] ELSE t
                     : t \in transformations}
             /\ events' =
                  {IF e.key = <<"proposals_v2", id>>
                   THEN [e EXCEPT !.value.status = status] ELSE e
                     : e \in events}
        ELSE UNCHANGED <<transformations, events>>
  /\ block' = block
  /\ Registry

\* One sub-evaluation settles.
Settle(i) ==
  /\ pending # NoPending
  /\ i \in 1..Len(pending.items) /\ pending.slots[i] = None
  /\ pending' = settled(pending, i)
  /\ result' = result
  /\ Unchanged

\* Every sub-evaluation has been fulfilled: the evaluation goes on with the
\* collected outcomes.
Collect ==
  /\ pending # NoPending
  /\ \A i \in 1..Len(pending.items) :
       pending.slots[i] # None /\ Val(pending.slots[i]).ok
  /\ LET outs == collected(pending)
         lookups == pending.lookups \o lookupsOf(outs)
         Kept(response) == keptBy(Arg(pending.args, "filter"), response)
         IsOpen(response) == response.proposal.status = Open
         open == SelectSeq(valuesOf(outs), IsOpen)
         return(value) ==
           /\ result' = Evaluated(pending.formula, pending.args, Return(value, lookups))
                          @@ [settled |-> pending.order]
           /\ pending' = NoPending
     IN CASE pending.formula = "listProposals" ->
               return(SelectSeq(valuesOf(outs), Kept))
          [] pending.formula = "reverseProposals" -> return(valuesOf(outs))
          [] pending.stage = "votes" ->
               return([i \in 1..Len(outs) |-> tagged(pending.items[i].response,
                                                     outs[i].value)])
          [] OTHER ->
               IF Falsy(Arg(pending.args, "address")) THEN return(open)
               ELSE /\ pending' =
                         Dispatched("openProposals", pending.args, "votes",
                                    [i \in 1..Len(open) |->
                                       [id |-> open[i].id, response |-> open[i]]],
                                    pending.v2, lookups)
                    /\ result' = result
  /\ Unchanged

\* Every proposal is recorded Open; those of the pattern pass their tally.
ConcurrentRecord(id, pattern) ==
  [ArgsRecord EXCEPT !.passCondition = (ListRecord(id, pattern).status = Passed)]

\* Which of the proposals 1..MaxTasks are recorded, in which representation,
\* and on which of them address "a" has a ballot.
InitConcurrent ==
  /\ block = [height |-> 1, time |-> 0]
  /\ result = NoResult /\ pending = NoPending
  /\ database = NoDatabase /\ wasmCodes = <<>>
  /\ \E ids \in SUBSET (1..MaxTasks), pattern \in PassedPatterns,
        family \in {"proposal", "proposals_v2"}, voted \in SUBSET {1, 2} :
       LET facts == {ProposalFact(family, id, ConcurrentRecord(id, pattern), 1) : id \in ids}
                      \cup {VoteFact("ballots", "a", id, 1) : id \in voted}
       IN /\ transformations = UNION {f.t : f \in facts}
          /\ events = UNION {f.e : f \in facts}

ConcurrentArgs(formula) ==
  CASE formula = "listProposals" ->
         {<<>>, [filter |-> "passed"], [limit |-> "2", startAfter |-> "1"]}
    [] formula = "reverseProposals" -> {<<>>, [limit |-> "2"]}
    [] OTHER -> {<<>>, [address |-> "a"]}

NextConcurrent ==
  \/ \E formula \in {"listProposals", "reverseProposals", "openProposals"} :
       \E args \in ConcurrentArgs(formula) : Dispatch(formula, args)
  \/ \E i \in 1..MaxTasks : Settle(i)
  \/ Collect
  \/ Respond

SpecConcurrent == InitConcurrent /\ [][NextConcurrent]_vars

\* The ids of the sub-evaluations in flight, in the order of dispatch.
DispatchedIds == [i \in 1..Len(pending.items) |-> pending.items[i].id]
InOrderOf(formula, ids) ==
  \A i \in 1..Len(ids), j \in 1..Len(ids) :
    i < j => IF formula = "reverseProposals" THEN ids[i] > ids[j] ELSE ids[i] < ids[j]

\* C13: the sub-evaluations of listProposals, reverseProposals and
\* openProposals are all dispatched before any settles and settle in any
\* order; no result exists while one of them is in flight, and the result is,
\* whatever the order of settling, the sequence in the id order fixed at
\* dispatch: ascending (descending for reverseProposals), with the value the
\* formula has on the log.
C13_DispatchOrder ==
  /\ pending # NoPending =>
       /\ result = NoResult
       /\ InOrderOf(pending.formula, DispatchedIds)
  /\ result # NoResult =>
       /\ result.value = compute(result.formula, result.args).value
       /\ InOrderOf(result.formula, ResultIds)
       /\ (result.formula = "reverseProposals" \/ result.args = <<>>) =>
            Len(result.settled) >= Len(result.value)

\* Three sub-evaluations of listProposals settled last to first.
C13_Witness ==
  /\ ReturnedBy("listProposals") /\ result.args = <<>>
  /\ result.settled = <<3, 2, 1>>
  /\ ResultIds = <<1, 2, 3>>

\* The proposal records the environment serves at the query height.
ServedRecords ==
  {Val(getTransformationMatch(<<"proposal", toString(id)>>)).value
     : id \in {i \in 1..MaxTasks : getTransformationMatch(<<"proposal", toString(i)>>) # None}}
    \cup {Val(get(<<"proposals_v2", id>>))
            : id \in {i \in 1..MaxTasks : get(<<"proposals_v2", i>>) # None}}

----------------------------------------------------------------------------
(* SpecFaults: the evaluations of SpecConcurrent in an environment whose   *)
(* lookups may fail, over logs in which proposals, dates and ballots may   *)
(* be absent.                                                              *)

\* The error of a failed lookup, after the lookups issued up to it.
Failure(issued) ==
  [ok |-> FALSE, value |-> "InternalLookupError", lookups |-> issued]

\* The lookups issued when one lookup of a sequence fails: those up to it.
FailingIn(lookups) == {SubSeq(lookups, 1, k) : k \in 1..Len(lookups)}

\* The sub-evaluations that were rejected, and the first of them to be.
Rejections(p) ==
  {i \in 1..Len(p.items) : p.slots[i] # None /\ ~Val(p.slots[i]).ok}
FirstRejection(p) ==
  CHOOSE k \in 1..Len(p.order) :
    /\ p.order[k] \in Rejections(p)
    /\ \A j \in 1..(k - 1) : p.order[j] \notin Rejections(p)

\* A lookup of resolveProposals fails: the await throws out of compute.
DispatchFails(formula, args) ==
  /\ result = NoResult /\ pending = NoPending
  /\ \E issued \in FailingIn(resolveProposals.lookups) :
       result' = Evaluated(formula, args, Failure(issued))
  /\ pending' = pending
  /\ Unchanged

\* A lookup of sub-evaluation i fails: its promise is rejected.
Reject(i) ==
  /\ pending # NoPending
  /\ i \in 1..Len(pending.items) /\ pending.slots[i] = None
  /\ \E issued \in FailingIn(Val(settled(pending, i).slots[i]).lookups) :
       pending' = [pending EXCEPT !.slots[i] = Some(Failure(issued)),
                                  !.order = Append(@, i)]
  /\ result' = result
  /\ Unchanged

\* Variant: the rejected sub-evaluations are left out and the evaluation
\* goes on with the others.
Fail_skipped ==
  /\ pending # NoPending
  /\ Rejections(pending) # {}
  /\ LET kept == sortAscending((1..Len(pending.items)) \ Rejections(pending))
     IN pending' =
          [pending EXCEPT !.items = [k \in 1..Len(kept) |-> pending.items[kept[k]]],
                          !.slots = [k \in 1..Len(kept) |-> pending.slots[kept[k]]],
                          !.order = <<>>]
  /\ result' = result
  /\ Unchanged

\* await Promise.all(...) with a rejected sub-evaluation: the first rejection
\* is thrown out of compute, whatever the other sub-evaluations did.
Fail ==
  /\ pending # NoPending
  /\ Rejections(pending) # {}
  /\ LET k == FirstRejection(pending)
         outs == [j \in 1..k |-> Val(pending.slots[pending.order[j]])]
     IN result' =
          Evaluated(pending.formula, pending.args,
                    Failure(pending.lookups \o lookupsOf(outs)))
            @@ [settled |-> pending.order]
  /\ pending' = NoPending
  /\ Unchanged

\* Which of the proposals 1..MaxTasks are recorded Open, in which
\* representation, and whether address "a" has a ballot on proposal 1.
InitFaults ==
  /\ block = [height |-> 1, time |-> 0]
  /\ result = NoResult /\ pending = NoPending
  /\ database = NoDatabase /\ wasmCodes = <<>>
  /\ \E ids \in SUBSET (1..MaxTasks), family \in {"proposal", "proposals_v2"},
        voted \in SUBSET {1} :
       LET facts == {ProposalFact(family, id, ConcurrentRecord(id, "odd"), 1) : id \in ids}
                      \cup {VoteFact("ballots", "a", id, 1) : id \in voted}
       IN /\ transformations = UNION {f.t : f \in facts}
          /\ events = UNION {f.e : f \in facts}

FaultArgs(formula) ==
  CASE formula = "listProposals" -> {<<>>, [filter |-> "passed"]}
    [] formula = "reverseProposals" -> {<<>>}
    [] OTHER -> {<<>>, [address |-> "a"]}

NextFaults ==
  \/ \E formula \in {"listProposals", "reverseProposals", "openProposals"} :
       \E args \in FaultArgs(formula) : Dispatch(formula, args)
  \/ \E formula \in {"listProposals", "reverseProposals", "openProposals"} :
       \E args \in FaultArgs(formula) : DispatchFails(formula, args)
  \/ \E i \in 1..MaxTasks : Settle(i)
  \/ \E i \in 1..MaxTasks : Reject(i)
  \/ Collect
  \/ Fail
  \/ Respond

SpecFaults == InitFaults /\ [][NextFaults]_vars

\* The step ends the evaluation of a list formula.
Ends == result = NoResult /\ result' # NoResult

\* C19: no partial results.  An evaluation of listProposals, reverseProposals
\* or openProposals in which a lookup of the formula or of one of its
\* sub-evaluations failed ends in the one error of that lookup and returns
\* no list; an evaluation in which no lookup failed, whatever its lookups
\* found absent, ends in the whole list the formula has on the log, never
\* in an error.
C19_NoPartialResults ==
  [][Ends =>
       IF pending = NoPending \/ Rejections(pending) # {}
       THEN /\ ~result'.ok
            /\ result'.value = "InternalLookupError"
            /\ result'.lookups # <<>>
       ELSE /\ result'.ok
            /\ result'.value = compute(pending.formula, pending.args).value]_vars

\* Of three sub-evaluations two were fulfilled and one was rejected, and
\* the evaluation ended in the error.
C19_Witness ==
  /\ result # NoResult /\ ~result.ok
  /\ result.formula \in {"listProposals", "reverseProposals", "openProposals"}
  /\ result.value = "InternalLookupError"
  /\ "settled" \in DOMAIN result /\ Len(result.settled) = 3

----------------------------------------------------------------------------
(* SpecVotes: the votes on proposal 1 of a set of voters, recorded as raw  *)
(* ballots or as voteCast Transformations, listed with every cursor and    *)
(* limit; the transformer may catch up with the raw ballots while a        *)
(* response is held.                                                       *)

\* The first n numbered voters.
FirstVoters(n) == {Numbered(i) : i \in 1..n}

\* The electorates: every set of short addresses, and numbered electorates
\* around the largest dated page.
Electorates ==
  (SUBSET {"a", "a1", "b", "c"})
    \cup {FirstVoters(n) : n \in (MaxDatedVotes - 1)..MaxVoters}

\* The vote of `voter` on proposal 1 (no if cast again, yes otherwise).
Cast(family, voter, again, h) ==
  LET ballot == [vote |-> IF again THEN "no" ELSE "yes"]
  IN IF family = "voteCast"
     THEN [t |-> {Transformation(<<"voteCast", voter, "1">>,
                                 [voter |-> voter, vote |-> ballot,
                                  votedAt |-> Some(h)], h)},
           e |-> {}]
     ELSE [t |-> {}, e |-> {RawWrite(<<"ballots", 1, voter>>, ballot, h)}]

InitVotes ==
  /\ NoRegistry
  /\ block = [height |-> 1, time |-> 0]
  /\ result = NoResult
  /\ \E family \in {"voteCast", "ballots"}, electorate \in Electorates :
       \E changed \in {{}} \cup {{v} : v \in electorate \cap {"a", Numbered(2)}} :
         /\ transformations =
              UNION ({Cast(family, v, FALSE, 1).t : v \in electorate}
                       \cup {Cast(family, v, TRUE, MaxHeight).t : v \in changed})
         /\ events =
              UNION ({Cast(family, v, FALSE, 1).e : v \in electorate}
                       \cup {Cast(family, v, TRUE, MaxHeight).e : v \in changed})

\* The voteCast transformer catches up: every write of a ballot of proposal
\* 1 is recorded as a Transformation at the height of the write.
Transform ==
  LET writes == {e \in events : Len(e.key) = 3 /\ e.key[1] = "ballots"}
  IN /\ pending = NoPending
     /\ writes # {}
     /\ transformations = {}
     /\ transformations' =
          {Transformation(<<"voteCast", e.key[3], "1">>,
                          [voter |-> e.key[3], vote |-> e.value,
                           votedAt |-> Some(e.blockHeight)],
                          e.blockHeight) : e \in writes}
     /\ UNCHANGED <<events, block, result, pending>>
     /\ Registry

VotesArgs ==
  {[proposalId |-> "1"] @@ a @@ b :
     a \in Optional("limit", {"", "0", "1", "2"}),
     b \in Optional("startAfter", {"a", "a1", Numbered(1)})}

NextVotes ==
  \/ \E args \in VotesArgs : EvalListVotes(args)
  \/ Respond
  \/ AdvanceHeight
  \/ Transform

SpecVotes == InitVotes /\ [][NextVotes]_vars

\* The voters of a list of votes, in order.
VotersOf(votes) == [i \in 1..Len(votes) |-> votes[i].voter]

\* The response in hand lists votes, and was read from the raw ballots.
Listed == result.formula = "listVotes" /\ result.ok
FromBallots == Listed /\ Len(result.lookups) >= 2

\* The votes are now recorded as Transformations.
Transformed == getTransformationMatches("1", None, None) # None

\* C16: for the same voters recorded as raw ballots and as voteCast
\* Transformations, listVotes returns the same ordered sequence of voters
\* from both representations, for every startAfter and limit: a list read
\* from the raw ballots equals the list the same arguments give once the
\* transformer has recorded the same ballots.
C16_Claimed ==
  (FromBallots /\ result.block = block /\ Transformed) =>
    VotersOf(result.value) = VotersOf(listVotes(result.args).value)

\* The getDateKeyModified lookups of the response in hand.
DateLookups ==
  {i \in 1..Len(result.lookups) : result.lookups[i].fn = "getDateKeyModified"}

\* The facts that record the vote of `voter` at or before the query height,
\* and the height of the write that set the current ballot: of the raw write
\* if there is one, as recorded by the Transformation otherwise.
BallotWrites(voter) ==
  {e \in events : e.key = <<"ballots", 1, voter>> /\ e.blockHeight <= block.height}
VoteCasts(voter) ==
  {t \in transformations :
     t.name = <<"voteCast", voter, "1">> /\ t.blockHeight <= block.height}
CastAt(voter) ==
  IF BallotWrites(voter) # {}
  THEN CHOOSE h \in Heights :
         /\ \E e \in BallotWrites(voter) : e.blockHeight = h
         /\ \A e \in BallotWrites(voter) : e.blockHeight <= h
  ELSE CHOOSE h \in Heights :
         /\ \E t \in VoteCasts(voter) : t.blockHeight = h
         /\ \A t \in VoteCasts(voter) : t.blockHeight <= h

\* The voters with a raw ballot after the cursor, and the size of the page
\* the limit leaves of them.
Eligible ==
  LET startAfter == Arg(result.args, "startAfter")
  IN {v \in Voters :
        /\ BallotWrites(v) # {}
        /\ Falsy(startAfter) \/ localeCompare(v, Val(startAfter)) > 0}
PageSize ==
  LET limit == Arg(result.args, "limit")
  IN IF Falsy(limit) \/ Number(Val(limit)) > Cardinality(Eligible)
     THEN Cardinality(Eligible)
     ELSE Number(Val(limit))

Undated == \A i \in 1..Len(result.value) : result.value[i].votedAt = None
Dated ==
  \A i \in 1..Len(result.value) :
    result.value[i].votedAt = Some(CastAt(result.value[i].voter))

\* C17 as claimed: a page of more than 50 entries is returned with no date
\* lookup and every votedAt absent; a page of 50 or fewer entries carries,
\* for each entry, the date of the write that set the voter's current ballot.
C17_Claimed ==
  Listed =>
    /\ Len(result.value) > MaxDatedVotes => (DateLookups = {} /\ Undated)
    /\ Len(result.value) <= MaxDatedVotes => Dated

\* C17: when listVotes reads the raw ballots, every voter of the page is
\* returned; a page of more than 50 entries issues no date lookup and has
\* every votedAt absent, and a page of 50 or fewer entries issues one date
\* lookup per entry and carries the date of the write that set the voter's
\* current ballot.  When it reads voteCast Transformations it issues no
\* date lookup and every entry carries the recorded date, whatever the size
\* of the page.
C17_DatedPages ==
  Listed =>
    IF FromBallots
    THEN /\ Len(result.value) = PageSize
         /\ {result.value[i].voter : i \in 1..PageSize} \subseteq Eligible
         /\ PageSize > MaxDatedVotes => (DateLookups = {} /\ Undated)
         /\ PageSize <= MaxDatedVotes =>
              (Cardinality(DateLookups) = PageSize /\ Dated)
    ELSE DateLookups = {} /\ Dated

\* A page of more than 50 raw ballots has been listed.
C17_Witness ==
  FromBallots /\ Len(result.value) > MaxDatedVotes

----------------------------------------------------------------------------
(* SpecWasm: the code-key tables of the database and the code keys the     *)
(* WasmCodeService holds in memory, under createWasmCode, truncation and   *)
(* reloadWasmCodeIdsFromDB.                                                *)

CodeKeys == {"codeKey1", "codeKey2"}
CodeIds == 1..MaxCodeId

\* The codeKeyId argument of createWasmCode: a number or an array of numbers.
OneId(codeId) == [isArray |-> FALSE, value |-> codeId]
ManyIds(codeIds) == [isArray |-> TRUE, value |-> codeIds]
CodeIdArrays ==
  {<<>>} \cup {<<codeId>> : codeId \in CodeIds}
    \cup {<<a, b>> : a \in CodeIds, b \in CodeIds}

\* The rows of WasmCodeKeyId that belong to a code key.
codeKeyIdsOf(db, codeKey) == {row[2] : row \in {r \in db.ids : r[1] = codeKey}}

\* Variant: a key is only returned with the ids joined to it, so a key
\* without ids is not returned.
findAllWithIds_innerJoin(db) ==
  LET HasIds(codeKey) == codeKeyIdsOf(db, codeKey) # {}
      joined == SelectSeq(db.keys, HasIds)
  IN [i \in 1..Len(joined) |->
        [codeKey |-> joined[i], codeKeyIds |-> codeKeyIdsOf(db, joined[i])]]

\* WasmCodeKey.findAll({ include: WasmCodeKeyId }): every key, with the ids
\* joined to it.
findAllWithIds(db) ==
  [i \in 1..Len(db.keys) |->
     [codeKey |-> db.keys[i], codeKeyIds |-> codeKeyIdsOf(db, db.keys[i])]]

\* WasmCodeKey.findOne({ where: { codeKey }, include: WasmCodeKeyId })
findByKeyIncludeIds(db, codeKey) ==
  IF \E i \in 1..Len(db.keys) : db.keys[i] = codeKey
  THEN Some([codeKey |-> codeKey, codeKeyIds |-> codeKeyIdsOf(db, codeKey)])
  ELSE None

\* Variant: the key row is not written.
upsertKey_skipped(db, codeKey) == db

\* WasmCodeKey.upsert({ codeKey }) and WasmCodeKeyId.upsert({ codeKeyId, codeKey })
upsertKey(db, codeKey) ==
  IF \E i \in 1..Len(db.keys) : db.keys[i] = codeKey THEN db
  ELSE [db EXCEPT !.keys = Append(@, codeKey)]
upsertIds(db, codeKey, codeIds) ==
  [db EXCEPT !.ids = @ \cup {<<codeKey, codeIds[i]>> : i \in 1..Len(codeIds)}]

WasmUnchanged == UNCHANGED <<transformations, events, block, pending>>

createWasmCode(codeKey, codeKeyId) ==
  LET arrayCodeKeyId == IF codeKeyId.isArray THEN codeKeyId.value
                        ELSE <<codeKeyId.value>>
      stored == upsertIds(upsertKey(database, codeKey), codeKey, arrayCodeKeyId)
  IN /\ database' = stored
     /\ result' = [formula |-> "createWasmCode",
                   value |-> findByKeyIncludeIds(stored, codeKey)]
     /\ wasmCodes' = wasmCodes
     /\ WasmUnchanged

\* WasmCodeKeyId.truncate()
TruncateIds ==
  /\ database.ids # {}
  /\ database' = [database EXCEPT !.ids = {}]
  /\ result' = [formula |-> "truncate"]
  /\ wasmCodes' = wasmCodes
  /\ WasmUnchanged

\* WasmCodeKey.truncate({ cascade: true })
TruncateKeys ==
  /\ database # NoDatabase
  /\ database' = NoDatabase
  /\ result' = [formula |-> "truncate"]
  /\ wasmCodes' = wasmCodes
  /\ WasmUnchanged

WasmCode(codeKey, codeIds) == [codeKey |-> codeKey, codeIds |-> codeIds]

\* The reloads in a row that have completed with the database unchanged.
Reloads ==
  IF result.formula = "reloadWasmCodeIdsFromDB" THEN result.reloads ELSE 0

reloadWasmCodeIdsFromDB ==
  LET rows == findAllWithIds(database)
      loaded == [i \in 1..Len(rows) |-> WasmCode(rows[i].codeKey, rows[i].codeKeyIds)]
  IN /\ Reloads < MaxReloads
     /\ wasmCodes' = loaded
     /\ result' = [formula |-> "reloadWasmCodeIdsFromDB",
                   reloads |-> Reloads + 1, changed |-> loaded # wasmCodes]
     /\ database' = database
     /\ WasmUnchanged

getWasmCodes == wasmCodes

InitWasm ==
  /\ transformations = {} /\ events = {}
  /\ block = [height |-> 1, time |-> 0]
  /\ result = NoResult /\ pending = NoPending
  /\ database = NoDatabase /\ wasmCodes = <<>>

NextWasm ==
  \/ \E codeKey \in CodeKeys, codeId \in CodeIds :
       createWasmCode(codeKey, OneId(codeId))
  \/ \E codeKey \in CodeKeys, codeIds \in CodeIdArrays :
       createWasmCode(codeKey, ManyIds(codeIds))
  \/ TruncateIds
  \/ TruncateKeys
  \/ reloadWasmCodeIdsFromDB

SpecWasm == InitWasm /\ [][NextWasm]_vars

\* The code keys stored in the database and held by the service.
StoredKeys == {database.keys[i] : i \in 1..Len(database.keys)}
HeldKeys == {getWasmCodes[i].codeKey : i \in 1..Len(getWasmCodes)}

----------------------------------------------------------------------------
(* SpecCreate: createWasmCode step by step: the key is upserted, then the  *)
(* upserts of the ids are all started and complete in any order, then the  *)
(* key is read back with its ids.                                          *)

\* The upserts of one createWasmCode call in flight.
Creating(codeKey, codeIds) ==
  [formula |-> "createWasmCode", codeKey |-> codeKey, codeIds |-> codeIds,
   order |-> <<>>]

CreateUnchanged == UNCHANGED <<transformations, events, block, wasmCodes>>

\* await WasmCodeKey.upsert({ codeKey }), then every id upsert is started.
BeginCreate(codeKey, codeKeyId) ==
  /\ pending = NoPending
  /\ database' = upsertKey(database, codeKey)
  /\ pending' = Creating(codeKey, IF codeKeyId.isArray THEN codeKeyId.value
                                  ELSE <<codeKeyId.value>>)
  /\ result' = NoResult
  /\ CreateUnchanged

\* The upsert of the i-th id completes.
UpsertId(i) ==
  /\ pending # NoPending
  /\ i \in 1..Len(pending.codeIds)
  /\ \A k \in 1..Len(pending.order) : pending.order[k] # i
  /\ database' = upsertIds(database, pending.codeKey, <<pending.codeIds[i]>>)
  /\ pending' = [pending EXCEPT !.order = Append(@, i)]
  /\ result' = result
  /\ CreateUnchanged

\* await Promise.all(...) is through: return WasmCodeKey.findByKeyIncludeIds(codeKey)
EndCreate ==
  /\ pending # NoPending
  /\ Len(pending.order) = Len(pending.codeIds)
  /\ result' = [formula |-> "createWasmCode", codeKey |-> pending.codeKey,
                codeIds |-> pending.codeIds, order |-> pending.order,
                value |-> findByKeyIncludeIds(database, pending.codeKey)]
  /\ pending' = NoPending
  /\ database' = database
  /\ CreateUnchanged

NextCreate ==
  \/ \E codeKey \in CodeKeys, codeId \in CodeIds : BeginCreate(codeKey, OneId(codeId))
  \/ \E codeKey \in CodeKeys, codeIds \in CodeIdArrays :
       BeginCreate(codeKey, ManyIds(codeIds))
  \/ \E i \in 1..MaxCodeId : UpsertId(i)
  \/ EndCreate

SpecCreate == InitWasm /\ [][NextCreate]_vars

\* The ids associated with a code key in the database.
HeldIds(codeKey) == {codeId \in CodeIds : <<codeKey, codeId>> \in database.ids}
GivenIds(codeIds) == {codeIds[i] : i \in 1..Len(codeIds)}

\* C21: no step of createWasmCode removes a key or an id associated with
\* any key, and the same id may be held by several keys; when the call
\* returns, in whatever order its upserts completed, the key exists, every
\* given id (one, several or none) is associated with it, and the returned
\* row shows the key with exactly the ids it holds.
C21_CreateAssociates ==
  [][/\ database.ids \subseteq database'.ids
     /\ \A i \in 1..Len(database.keys) :
          i <= Len(database'.keys) /\ database'.keys[i] = database.keys[i]
     /\ (pending # NoPending /\ pending' = NoPending) =>
          /\ pending.codeKey \in {database'.keys[i] : i \in 1..Len(database'.keys)}
          /\ \A codeId \in GivenIds(pending.codeIds) :
               <<pending.codeKey, codeId>> \in database'.ids
          /\ result'.value =
               Some([codeKey |-> pending.codeKey,
                     codeKeyIds |-> {codeId \in CodeIds :
                                       <<pending.codeKey, codeId>> \in database'.ids}])
    ]_vars

\* A call with two ids has returned after its upserts completed last to
\* first, and id 1 is held by both keys.
C21_Witness ==
  /\ result.formula = "createWasmCode"
  /\ result.order = <<2, 1>>
  /\ 1 \in HeldIds("codeKey1") /\ 1 \in HeldIds("codeKey2")

----------------------------------------------------------------------------
(* SpecViews: proposals 1 and 2, each unrecorded or recorded in one of the *)
(* three representations, read through the proposal formula and through   *)
(* listProposals at every clock.                                           *)

\* A record that is derived Passed or Rejected as the clock moves, and a
\* record completed by an execution.
ViewRecords ==
  {[ArgsRecord EXCEPT !.passCondition = pc] : pc \in BOOLEAN}
    \cup {[ArgsRecord EXCEPT !.status = Executed]}

InitViews ==
  /\ NoRegistry
  /\ block = [height |-> 1, time |-> 0]
  /\ result = NoResult
  /\ \E first \in {NoFact} \cup
                    {ProposalFact(family, 1, record, 1) :
                       family \in {"proposal", "proposals_v2", "proposals"},
                       record \in ViewRecords},
        second \in {NoFact} \cup
                     {ProposalFact(family, 2, record, 1) :
                        family \in {"proposal", "proposals_v2", "proposals"},
                        record \in ViewRecords} :
       /\ transformations = first.t \cup second.t
       /\ events = first.e \cup second.e

NextViews ==
  \/ \E id \in {1, 2} : EvalProposal([id |-> toString(id)])
  \/ EvalListProposals(<<>>)
  \/ Respond
  \/ AdvanceTime

SpecViews == InitViews /\ [][NextViews]_vars

\* The items of listProposals, without cursor or limit, at the state's
\* height and clock, and those with the id of the proposal asked for.
Listing == listProposals(<<>>).value
ListedAs(id) == {i \in 1..Len(Listing) : Listing[i].id = id}

\* C24 as claimed: the proposal formula returns a response for an id if and
\* only if listProposals without cursor and limit holds an item with that
\* id, and then the two responses are equal.
C24_Claimed ==
  (result.formula = "proposal" /\ result.ok) =>
    LET id == Number(result.args.id)
    IN /\ result.value # None <=> ListedAs(id) # {}
       /\ result.value # None =>
            \A i \in ListedAs(id) : Listing[i] = Val(result.value)

====
